---------------------------- MODULE Spec2Model ----------------------------
(***************************************************************************)
(* Model of the m4/m6 pair-scan Collatz engine (collatz-m4m6).             *)
(*                                                                         *)
(* Representation of machine values.  TLC integers are 32 bit, while the   *)
(* program works on u64 words, u128/U256 scalars and BigUint values.  An   *)
(* unsigned integer of any width is therefore modelled by the set of the   *)
(* positions of its 1 bits (bit 0 = least significant): a u64 is a subset  *)
(* of 0..63, a BigUint is any finite set of naturals.  The bit operations  *)
(* of the program (&, |, ^, <<, >>, masks, trailing_zeros, ...) are the    *)
(* corresponding set operations; Vec<u64> is a sequence of such words      *)
(* (Rust index w is TLA+ index w+1).                                       *)
(***************************************************************************)
EXTENDS Integers, Sequences, FiniteSets, TLC

(***************************************************************************)
(* Program constants                                                       *)
(***************************************************************************)
\* pairs per packed word (u64)
WORD == 64
\* trajectory.rs: const MAX_PAIR_COUNT
MAX_PAIR_COUNT == 10000
\* width of the Phase 1 scalar (u128) and of U256
U128_BITS == 128
U256_BITS == 256
\* the start and the step budget of the paper's 3n+1 example
PaperStart == 27
PaperBudget == 200

(***************************************************************************)
(* Bounds of the model                                                     *)
(***************************************************************************)
\* small inputs 0..MaxSmall are enumerated exhaustively
MaxSmall == 40
\* bit lists of every length up to MaxBitsLen are given to from_bits_lsb
MaxBitsLen == 4
\* number of chained single steps explored from each input
MaxChain == 1
\* valid multipliers x = 2^s + 1 are enumerated for s in 1..MaxS
MaxS == 6
\* trajectories start from every n in 0..MaxTrajN
MaxTrajN == 15
\* the largest step budget max_steps given to a trajectory
MaxSteps == 6
\* largest small start of the tracers
MaxTraceN == 9

(***************************************************************************)
(* Bit-set arithmetic helpers                                              *)
(***************************************************************************)
Bit(S, i) == IF i \in S THEN 1 ELSE 0

DivCeil(a, b) == (a + b - 1) \div b

MaxNat(a, b) == IF a >= b THEN a ELSE b

MinNat(a, b) == IF a <= b THEN a ELSE b

\* v is computed: used by the loops below so that the state of a loop is
\* computed before the next range of iterations is entered
Evaluated(v) == v = v

\* v, computed once here instead of at each later use
Force(v) == IF Evaluated(v) THEN v ELSE v

\* v[i] of a Vec or slice (Rust indices start at 0)
At(v, i) == IF Evaluated(v) THEN v[i + 1] ELSE v[i + 1]

RECURSIVE UpperPow(_, _)
\* a power of two strictly above every element of S
UpperPow(S, p) == IF \A i \in S : i < p THEN p ELSE UpperPow(S, 2 * p)

RECURSIVE MaxIn(_, _, _)
\* largest element of S in lo..hi (S meets lo..hi)
MaxIn(S, lo, hi) ==
    IF lo = hi THEN lo
    ELSE LET mid == (lo + hi + 1) \div 2
         IN  IF \E i \in S : i >= mid /\ i <= hi
             THEN MaxIn(S, mid, hi)
             ELSE MaxIn(S, lo, mid - 1)

RECURSIVE MinIn(_, _, _)
\* least element of S in lo..hi (S meets lo..hi)
MinIn(S, lo, hi) ==
    IF lo = hi THEN lo
    ELSE LET mid == (lo + hi) \div 2
         IN  IF \E i \in S : i >= lo /\ i <= mid
             THEN MinIn(S, lo, mid)
             ELSE MinIn(S, mid + 1, hi)

SetMax(S) == MaxIn(S, 0, UpperPow(S, 64))

SetMin(S) == MinIn(S, 0, UpperPow(S, 64))

\* the bits of a small natural number
NatBits(v) == {i \in 0..30 : (v \div (2 ^ i)) % 2 = 1}

RECURSIVE BitsNat(_)
\* the value of a bit set contained in 0..30
BitsNat(S) == IF S = {} THEN 0
              ELSE LET i == CHOOSE j \in S : TRUE IN (2 ^ i) + BitsNat(S \ {i})

Xor(a, b) == (a \ b) \cup (b \ a)

\* u64: w << s  (s < 64; bits shifted past bit 63 are lost)
Shl(w, s) == {i + s : i \in {j \in w : j + s < WORD}}

\* u64: w >> s
Shr(w, s) == {i - s : i \in {j \in w : j >= s}}

\* u64: (1 << r) - 1
LowMask(r) == 0..(r - 1)

\* u64::trailing_zeros
TrailingZeros(w) == IF w = {} THEN WORD ELSE MinIn(w, 0, WORD - 1)

\* u64::leading_zeros
LeadingZeros(w) == IF w = {} THEN WORD ELSE (WORD - 1) - MaxIn(w, 0, WORD - 1)

(***************************************************************************)
(* BigUint (num_bigint), as used by the program                            *)
(***************************************************************************)
BigZero == {}

BigOne == {0}

\* BigUint::bits()
BigBits(n) == IF n = {} THEN 0 ELSE SetMax(n) + 1

\* BigUint::to_bytes_le(): little-endian bytes, [0] for zero
ToBytesLe(n) ==
    LET len == MaxNat(1, DivCeil(BigBits(n), 8))
    IN  [j \in 1..len |->
            Bit(n, 8 * (j - 1)) + 2 * Bit(n, 8 * (j - 1) + 1)
          + 4 * Bit(n, 8 * (j - 1) + 2) + 8 * Bit(n, 8 * (j - 1) + 3)
          + 16 * Bit(n, 8 * (j - 1) + 4) + 32 * Bit(n, 8 * (j - 1) + 5)
          + 64 * Bit(n, 8 * (j - 1) + 6) + 128 * Bit(n, 8 * (j - 1) + 7)]

\* BigUint::from_bytes_le()
FromBytesLe(bytes) ==
    {p \in 0..(8 * Len(bytes) - 1) : (bytes[(p \div 8) + 1] \div (2 ^ (p % 8))) % 2 = 1}

\* integer comparison of two BigUint values: "Less", "Equal" or "Greater"
BigCmp(a, b) ==
    IF a = b THEN "Equal"
    ELSE IF SetMax(Xor(a, b)) \in a THEN "Greater" ELSE "Less"

(***************************************************************************)
(* PairNumber (pair_number.rs)                                             *)
(***************************************************************************)
PairNumber(m4, m6, k) ==
    [m4_words |-> Force(m4), m6_words |-> Force(m6), pair_count |-> k]

\* PairNumber::from_packed
from_packed(m4, m6, k) == PairNumber(m4, m6, k)

\* PairNumber::get_m4 (0 out of range)
get_m4(pn, i) ==
    IF i < 0 \/ i >= pn.pair_count THEN 0
    ELSE Bit(pn.m4_words[(i \div WORD) + 1], i % WORD)

\* PairNumber::get_m6 (0 out of range)
get_m6(pn, i) ==
    IF i < 0 \/ i >= pn.pair_count THEN 0
    ELSE Bit(pn.m6_words[(i \div WORD) + 1], i % WORD)

\* PairNumber::from_biguint
from_biguint(n) ==
    IF n = BigZero THEN PairNumber(<<{}>>, <<{}>>, 1)
    ELSE
    LET bytes == Force(ToBytesLe(n))
        bit_len == BigBits(n)
        padded_bit_len == IF bit_len % 2 # 0 THEN bit_len + 1 ELSE bit_len
        pair_count == padded_bit_len \div 2
        word_count == DivCeil(pair_count, WORD)
        ByteBit(pos) == IF pos \div 8 < Len(bytes)
                        THEN (bytes[(pos \div 8) + 1] \div (2 ^ (pos % 8))) % 2
                        ELSE 0
        Idx(w) == {b \in 0..(WORD - 1) : WORD * w + b < pair_count}
    IN  PairNumber(
          [w \in 1..word_count |->
              {b \in Idx(w - 1) : ByteBit(2 * (WORD * (w - 1) + b) + 1) = 1}],
          [w \in 1..word_count |->
              {b \in Idx(w - 1) : ByteBit(2 * (WORD * (w - 1) + b)) = 1}],
          pair_count)

\* to_biguint with the two streams exchanged (m4 read at the even positions)
to_biguint_streams_exchanged(pn) ==
    {2 * i : i \in {j \in 0..(pn.pair_count - 1) : get_m4(pn, j) = 1}}
      \cup {2 * i + 1 : i \in {j \in 0..(pn.pair_count - 1) : get_m6(pn, j) = 1}}

\* PairNumber::to_biguint
to_biguint(pn) ==
    LET k == pn.pair_count
    IN  IF k = 0 THEN BigZero
        ELSE
        LET total_bits == 2 * k
            byte_count == DivCeil(total_bits, 8)
            \* the bit written at fastener position pos (m6 even, m4 odd)
            FastenerBit(pos) ==
                IF pos >= total_bits THEN 0
                ELSE IF pos % 2 = 0
                THEN Bit(pn.m6_words[((pos \div 2) \div WORD) + 1], (pos \div 2) % WORD)
                ELSE Bit(pn.m4_words[((pos \div 2) \div WORD) + 1], (pos \div 2) % WORD)
            bytes == [j \in 1..byte_count |->
                        FastenerBit(8 * (j - 1)) + 2 * FastenerBit(8 * (j - 1) + 1)
                      + 4 * FastenerBit(8 * (j - 1) + 2) + 8 * FastenerBit(8 * (j - 1) + 3)
                      + 16 * FastenerBit(8 * (j - 1) + 4) + 32 * FastenerBit(8 * (j - 1) + 5)
                      + 64 * FastenerBit(8 * (j - 1) + 6) + 128 * FastenerBit(8 * (j - 1) + 7)]
        IN  FromBytesLe(Force(bytes))

\* a fastener with the two streams at exchanged positions
to_bits_lsb_m4_first(pn) ==
    [j \in 1..(2 * pn.pair_count) |->
        IF (j - 1) % 2 = 0 THEN get_m4(pn, (j - 1) \div 2)
        ELSE get_m6(pn, (j - 1) \div 2)]

\* PairNumber::to_bits_lsb: m6 at even positions, m4 at odd positions
to_bits_lsb(pn) ==
    [j \in 1..(2 * pn.pair_count) |->
        IF (j - 1) % 2 = 0 THEN get_m6(pn, (j - 1) \div 2)
        ELSE get_m4(pn, (j - 1) \div 2)]

\* PairNumber::from_bits_lsb, for a slice of 0/1 values
from_bits_lsb(bits0) ==
    IF Len(bits0) = 0 THEN PairNumber(<<{}>>, <<{}>>, 1)
    ELSE
    LET bits == IF Len(bits0) % 2 # 0 THEN Append(bits0, 0) ELSE bits0
        k0 == Len(bits) \div 2
        word_count == DivCeil(k0, WORD)
        m6_words == Force([w \in 1..word_count |->
                       {b \in 0..(WORD - 1) :
                           /\ WORD * (w - 1) + b < k0
                           /\ At(bits, 2 * (WORD * (w - 1) + b)) = 1}])
        m4_words == Force([w \in 1..word_count |->
                       {b \in 0..(WORD - 1) :
                           /\ WORD * (w - 1) + b < k0
                           /\ At(bits, 2 * (WORD * (w - 1) + b) + 1) = 1}])
        \* the while loop lowers k from k0 until pair k-1 is not (0,0) or k = 1
        stop == {j \in 2..k0 :
                   \/ (j - 1) % WORD \in At(m4_words, (j - 1) \div WORD)
                   \/ (j - 1) % WORD \in At(m6_words, (j - 1) \div WORD)}
        k == IF stop = {} THEN 1 ELSE MaxIn(stop, 2, k0)
        new_word_count == DivCeil(k, WORD)
        remainder == k % WORD
        Masked(words) ==
            IF remainder > 0 /\ new_word_count > 0
            THEN [words EXCEPT ![new_word_count] = @ \cap LowMask(remainder)]
            ELSE words
    IN  PairNumber(Masked(SubSeq(m4_words, 1, new_word_count)),
                   Masked(SubSeq(m6_words, 1, new_word_count)), k)

\* PairNumber::is_one
is_one(pn) ==
    IF pn.pair_count # 1 THEN FALSE
    ELSE pn.m4_words[1] = {} /\ pn.m6_words[1] = {0}

\* cmp that stops after the comparison of the pair counts
cmp_pair_count_only(self, other) ==
    IF self.pair_count < other.pair_count THEN "Less"
    ELSE IF self.pair_count > other.pair_count THEN "Greater"
    ELSE "Equal"

\* a comparison that takes equal pair counts for "Less"
cmp_equal_count_is_less(self, other) ==
    IF self.pair_count <= other.pair_count THEN "Less" ELSE "Greater"

\* impl Ord for PairNumber: cmp
cmp(self, other) ==
    IF self.pair_count < other.pair_count THEN "Less"
    ELSE IF self.pair_count > other.pair_count THEN "Greater"
    ELSE
    LET words == Len(self.m4_words)
        DiffAny(w) == Xor(self.m4_words[w], other.m4_words[w])
                        \cup Xor(self.m6_words[w], other.m6_words[w])
        differing == {w \in 1..words : DiffAny(w) # {}}
    IN  IF differing = {} THEN "Equal"
        ELSE
        LET w == SetMax(differing)
            top_bit == (WORD - 1) - LeadingZeros(DiffAny(w))
            a_m4 == top_bit \in self.m4_words[w]
            b_m4 == top_bit \in other.m4_words[w]
            a_m6 == top_bit \in self.m6_words[w]
            b_m6 == top_bit \in other.m6_words[w]
        IN  IF a_m4 # b_m4
            THEN (IF a_m4 THEN "Greater" ELSE "Less")
            ELSE IF a_m6 # b_m6
                 THEN (IF a_m6 THEN "Greater" ELSE "Less")
                 ELSE "Unreachable"

(***************************************************************************)
(* Postprocess (postprocess.rs)                                            *)
(***************************************************************************)
\* mask_top (postprocess.rs) / mask_top_bits (packed.rs)
mask_top(words, pair_count) ==
    IF Len(words) = 0 THEN words
    ELSE LET remainder == pair_count % WORD
         IN  IF remainder > 0
             THEN [words EXCEPT ![Len(words)] = @ \cap LowMask(remainder)]
             ELSE words

\* trim_pair_count without its loop
trim_pair_count_skipped(m4, m6, pair_count) == pair_count

\* trim_pair_count: the while loop lowers k from pair_count until pair k-1
\* is not (0,0) or k = 1; pairs in words beyond m4.len() count as (0,0)
trim_pair_count(m4, m6, pair_count) ==
    IF pair_count = 0 THEN 0
    ELSE LET stop == {k \in 2..pair_count :
                        LET word_idx == (k - 1) \div WORD
                            bit_idx == (k - 1) % WORD
                        IN  /\ word_idx < Len(m4)
                            /\ \/ bit_idx \in At(m4, word_idx)
                               \/ bit_idx \in At(m6, word_idx)}
         IN  IF stop = {} THEN 1 ELSE MaxIn(stop, 2, pair_count)

RECURSIVE ctz_loop(_, _, _, _, _)
\* count_trailing_zeros_packed: the loop over words w..word_count-1
ctz_loop(m4, m6, word_count, w, d) ==
    IF w >= word_count THEN d
    ELSE LET m4w == IF w < Len(m4) THEN At(m4, w) ELSE {}
             m6w == IF w < Len(m6) THEN At(m6, w) ELSE {}
             or_word == m4w \cup m6w
         IN  IF or_word = {} THEN ctz_loop(m4, m6, word_count, w + 1, d + 2 * WORD)
             ELSE LET tz == TrailingZeros(or_word)
                  IN  d + tz * 2 + (IF tz \notin m6w THEN 1 ELSE 0)

\* a count that takes every pair as two bits, the boundary pair included
count_trailing_zeros_in_pairs(m4, m6, pair_count) ==
    2 * (ctz_loop(m4, m6, DivCeil(pair_count, WORD), 0, 0) \div 2)

\* count_trailing_zeros_packed(m4, m6, pair_count)
count_trailing_zeros_packed(m4, m6, pair_count) ==
    ctz_loop(m4, m6, DivCeil(pair_count, WORD), 0, 0)

\* shift_right_bits -> (m4, m6, pair_count)
shift_right_bits(m4, m6, pair_count, d) ==
    IF d = 0
    THEN LET word_count == DivCeil(pair_count, WORD)
         IN  [m4 |-> mask_top(SubSeq(m4, 1, word_count), pair_count),
              m6 |-> mask_top(SubSeq(m6, 1, word_count), pair_count),
              pair_count |-> pair_count]
    ELSE
    LET total_bits == 2 * pair_count
        remaining_bits == IF total_bits >= d THEN total_bits - d ELSE 0
        new_pair_count == DivCeil(remaining_bits, 2)
    IN  IF remaining_bits = 0 \/ new_pair_count = 0
        THEN [m4 |-> <<{}>>, m6 |-> <<{}>>, pair_count |-> 1]
        ELSE
        LET new_word_count == DivCeil(new_pair_count, WORD)
            \* the source bit copied to fastener position out_bit
            BitVal(out_bit) ==
                LET src_bit == out_bit + d
                    src_pair == src_bit \div 2
                    w == src_pair \div WORD
                    b == src_pair % WORD
                IN  IF src_pair < pair_count
                    THEN IF src_bit % 2 = 1
                         THEN (IF w < Len(m4) THEN Bit(At(m4, w), b) ELSE 0)
                         ELSE (IF w < Len(m6) THEN Bit(At(m6, w), b) ELSE 0)
                    ELSE 0
            new_m4 == [ow \in 1..new_word_count |->
                         {ob \in 0..(WORD - 1) :
                             /\ 2 * (WORD * (ow - 1) + ob) + 1 < remaining_bits
                             /\ BitVal(2 * (WORD * (ow - 1) + ob) + 1) = 1}]
            new_m6 == [ow \in 1..new_word_count |->
                         {ob \in 0..(WORD - 1) :
                             /\ 2 * (WORD * (ow - 1) + ob) < remaining_bits
                             /\ BitVal(2 * (WORD * (ow - 1) + ob)) = 1}]
            k == trim_pair_count(new_m4, new_m6, new_pair_count)
            final_word_count == DivCeil(k, WORD)
        IN  [m4 |-> mask_top(SubSeq(new_m4, 1, final_word_count), k),
             m6 |-> mask_top(SubSeq(new_m6, 1, final_word_count), k),
             pair_count |-> k]

\* postprocess: PostprocessResult {next, d, exchanged}
postprocess(new_m4, new_m6, raw_pair_count) ==
    LET pair_count == IF raw_pair_count = 0 THEN 0
                      ELSE trim_pair_count(new_m4, new_m6, raw_pair_count)
    IN  IF pair_count = 0
        THEN [next |-> from_packed(<<{}>>, <<{}>>, 1), d |-> 0, exchanged |-> FALSE]
        ELSE
        LET d == count_trailing_zeros_packed(new_m4, new_m6, pair_count)
            sh == shift_right_bits(new_m4, new_m6, pair_count, d)
        IN  [next |-> from_packed(sh.m4, sh.m6, sh.pair_count),
             d |-> d,
             exchanged |-> (d % 2 = 1)]

(***************************************************************************)
(* Reference pattern (reference.rs)                                        *)
(***************************************************************************)
\* the result of a call that aborts (assert!, overflow check)
Panic == [panic |-> TRUE]

\* u64 comparison x >= 3
U64AtLeast3(x) == BigCmp(x, {0, 1}) # "Less"

\* u64: x - 1 for x > 0
U64MinusOne(x) == LET tz == TrailingZeros(x) IN (x \ {tz}) \cup LowMask(tz)

\* u64::is_power_of_two
is_power_of_two(w) == Cardinality(w) = 1

\* RefPattern::new
RefPattern_new(x) ==
    IF ~U64AtLeast3(x) THEN Panic
    ELSE LET xm1 == U64MinusOne(x)
         IN  IF ~is_power_of_two(xm1) THEN Panic
             ELSE LET s == TrailingZeros(xm1)
                  IN  [panic |-> FALSE, s |-> s, t |-> s \div 2, s_is_even |-> (s % 2 = 0)]

\* RefPattern::ref_r -> (p, q)
ref_r(rp, n, i, bi) ==
    IF rp.s_is_even THEN [p |-> get_m6(n, i - rp.t), q |-> bi]
    ELSE [p |-> get_m4(n, i - rp.t - 1), q |-> bi]

\* ref_l that applies the even-s rule whatever the parity of s
ref_l_even_rule(rp, n, i, ai) == [p |-> get_m4(n, i - rp.t), q |-> ai]

\* RefPattern::ref_l -> (p, q)
ref_l(rp, n, i, ai) ==
    IF rp.s_is_even THEN [p |-> get_m4(n, i - rp.t), q |-> ai]
    ELSE [p |-> get_m6(n, i - rp.t), q |-> ai]

(***************************************************************************)
(* Sequential scan (scan.rs)                                               *)
(***************************************************************************)
\* single-bit operators on u8 values 0/1
BAnd(a, b) == a * b

BOr(a, b) == IF a + b > 0 THEN 1 ELSE 0

BXor(a, b) == (a + b) % 2

\* a class taken from the m4 stage alone
pair_gpk_m4_stage(p_r, q_r, p_l, q_l) ==
    IF BAnd(p_l, q_l) # 0 THEN "G" ELSE IF BXor(p_l, q_l) # 0 THEN "P" ELSE "K"

\* pair_gpk: "G" (Generate), "P" (Propagate) or "K" (Kill)
pair_gpk(p_r, q_r, p_l, q_l) ==
    LET g_mid == BAnd(p_r, q_r)
        p_mid == BXor(p_r, q_r)
        g_out == BAnd(p_l, q_l)
        p_out == BXor(p_l, q_l)
        g_i == BOr(g_out, BAnd(p_out, g_mid))
        p_i == BAnd(p_out, p_mid)
    IN  IF g_i # 0 THEN "G" ELSE IF p_i # 0 THEN "P" ELSE "K"

\* the packed words holding the pair indices of S (bit i%64 of word i/64)
PackWords(S, word_count) ==
    Force([w \in 1..word_count |->
             {i - WORD * (w - 1) : i \in {j \in S : j \div WORD = w - 1}}])

\* the state of the scan loop before its first iteration: the output streams
\* and the G/P masks are kept as sets of pair indices until the loop ends
ScanInit == [c |-> 1, m4 |-> {}, m6 |-> {}, g |-> {}, p |-> {},
             g_count |-> 0, p_count |-> 0, k_count |-> 0,
             actual_pairs |-> 0, brk |-> FALSE]

\* one iteration of the scan loop: GpkInfo::set_gpk for i < k, the two adder
\* stages, the output bits and the early exit at i >= safe_end
ScanIteration(st, k, i, p_r, q_r, p_l, q_l, safe_end) ==
    LET gpk == pair_gpk(p_r, q_r, p_l, q_l)
        rec == i < k
        sum_r == p_r + q_r + st.c
        m6_bit == sum_r % 2
        c_mid == sum_r \div 2
        sum_l == p_l + q_l + c_mid
        m4_bit == sum_l % 2
        c == sum_l \div 2
    IN  [c |-> c,
         m4 |-> IF m4_bit = 1 THEN st.m4 \cup {i} ELSE st.m4,
         m6 |-> IF m6_bit = 1 THEN st.m6 \cup {i} ELSE st.m6,
         g |-> IF rec /\ gpk = "G" THEN st.g \cup {i} ELSE st.g,
         p |-> IF rec /\ gpk = "P" THEN st.p \cup {i} ELSE st.p,
         g_count |-> st.g_count + (IF rec /\ gpk = "G" THEN 1 ELSE 0),
         p_count |-> st.p_count + (IF rec /\ gpk = "P" THEN 1 ELSE 0),
         k_count |-> st.k_count + (IF rec /\ gpk = "K" THEN 1 ELSE 0),
         actual_pairs |-> i + 1,
         brk |-> (c = 0 /\ i >= safe_end)]

\* a loop body whose early exit ignores the reference-pattern horizon
collatz_step_body_exit_at_k(n, rp, i, st) ==
    LET ai == get_m4(n, i)
        bi == get_m6(n, i)
        r == ref_r(rp, n, i, bi)
        l == ref_l(rp, n, i, ai)
        k == n.pair_count
    IN  ScanIteration(st, k, i, r.p, r.q, l.p, l.q, k)

\* loop body of collatz_step (generic x)
collatz_step_body(n, rp, i, st) ==
    LET ai == get_m4(n, i)
        bi == get_m6(n, i)
        r == ref_r(rp, n, i, bi)
        l == ref_l(rp, n, i, ai)
        k == n.pair_count
        safe_end == k + (MaxNat(rp.s, 1) - 1) \div 2
    IN  ScanIteration(st, k, i, r.p, r.q, l.p, l.q, safe_end)

\* loop body of collatz_step_3n1: ref_R = (a[i-1], b[i]), ref_L = (b[i], a[i])
collatz_step_3n1_body(n, i, st) ==
    LET ai == get_m4(n, i)
        bi == get_m6(n, i)
        a_prev == get_m4(n, i - 1)
    IN  ScanIteration(st, n.pair_count, i, a_prev, bi, bi, ai, n.pair_count)

\* loop body of collatz_step_5n1: ref_R = (b[i-1], b[i]), ref_L = (a[i-1], a[i])
collatz_step_5n1_body(n, i, st) ==
    LET ai == get_m4(n, i)
        bi == get_m6(n, i)
        b_prev == get_m6(n, i - 1)
        a_prev == get_m4(n, i - 1)
    IN  ScanIteration(st, n.pair_count, i, b_prev, bi, a_prev, ai, n.pair_count)

RECURSIVE scan_loop(_, _, _, _, _, _)
\* the loop "for i in lo..hi { body; if ... break }": iterations run in
\* increasing order of i, the range being split in halves to bound the
\* nesting depth of the evaluation
scan_loop(fn, n, rp, lo, hi, st) ==
    IF st.brk \/ lo >= hi THEN st
    ELSE IF hi - lo = 1
         THEN CASE fn = "3n1" -> collatz_step_3n1_body(n, lo, st)
                [] fn = "5n1" -> collatz_step_5n1_body(n, lo, st)
                [] OTHER -> collatz_step_body(n, rp, lo, st)
         ELSE LET mid == (lo + hi) \div 2
              IN  scan_loop(fn, n, rp, mid, hi, scan_loop(fn, n, rp, lo, mid, st))

\* one iteration of the carry-chain sweep (GpkInfo::finalize, compute_gpk_stats)
ChainIteration(cs, is_g, is_p) ==
    IF is_g THEN [chain |-> cs.chain + 1, max_chain |-> cs.max_chain, carry |-> TRUE]
    ELSE IF is_p
         THEN [chain |-> IF cs.carry THEN cs.chain + 1 ELSE cs.chain,
               max_chain |-> cs.max_chain, carry |-> cs.carry]
         ELSE [chain |-> 0, max_chain |-> MaxNat(cs.chain, cs.max_chain), carry |-> FALSE]

RECURSIVE chain_loop(_, _, _, _, _)
\* the sweep "for i in lo..hi" over the packed G/P masks
chain_loop(g_masks, p_masks, lo, hi, cs) ==
    IF lo >= hi \/ ~Evaluated(cs) THEN cs
    ELSE IF hi - lo = 1
         THEN ChainIteration(cs, (lo % WORD) \in At(g_masks, lo \div WORD),
                                 (lo % WORD) \in At(p_masks, lo \div WORD))
         ELSE LET mid == (lo + hi) \div 2
              IN  chain_loop(g_masks, p_masks, mid, hi,
                             chain_loop(g_masks, p_masks, lo, mid, cs))

\* a sweep that starts with the carry dead
finalize_carry_dead(g_masks, p_masks, active_pairs) ==
    LET cs == chain_loop(g_masks, p_masks, 0, active_pairs,
                         [chain |-> 0, max_chain |-> 0, carry |-> FALSE])
    IN  MaxNat(cs.chain, cs.max_chain)

\* GpkInfo::finalize: max_carry_chain from the masks, initial carry alive
finalize(g_masks, p_masks, active_pairs) ==
    LET cs == chain_loop(g_masks, p_masks, 0, active_pairs,
                         [chain |-> 0, max_chain |-> 0, carry |-> TRUE])
    IN  MaxNat(cs.chain, cs.max_chain)

\* StepResult { .. } as the sequential steps fill it
StepResult(pp, gpk, raw_m4, raw_m6, raw_pair_count) ==
    [panic |-> FALSE,
     next |-> pp.next, d |-> pp.d, exchanged |-> pp.exchanged, gpk |-> gpk,
     raw_m4 |-> raw_m4, raw_m6 |-> raw_m6, raw_pair_count |-> raw_pair_count]

\* gpk_info.finalize(), the raw snapshot and postprocess
scan_step_post(k, st, new_m4, new_m6, g_masks, p_masks) ==
    StepResult(postprocess(new_m4, new_m6, st.actual_pairs),
               [g_masks |-> g_masks, p_masks |-> p_masks, active_pairs |-> k,
                g_count |-> st.g_count, p_count |-> st.p_count,
                k_count |-> st.k_count,
                max_carry_chain |-> finalize(g_masks, p_masks, k)],
               new_m4, new_m6, st.actual_pairs)

\* after the loop st: the output streams and the G/P masks as packed words
scan_step_packed(k, out_word_count, st) ==
    scan_step_post(k, st, PackWords(st.m4, out_word_count),
                   PackWords(st.m6, out_word_count),
                   PackWords(st.g, (k + (WORD - 1)) \div WORD),
                   PackWords(st.p, (k + (WORD - 1)) \div WORD))

\* the part common to collatz_step, collatz_step_3n1 and collatz_step_5n1
\* after the choice of max_i: allocation, loop, finalize, raw snapshot,
\* postprocess
scan_step(fn, n, rp, max_i) ==
    scan_step_packed(n.pair_count, (max_i + 1 + (WORD - 1)) \div WORD,
                     scan_loop(fn, n, rp, 0, max_i + 1, ScanInit))

\* collatz_step(n, x)
collatz_step(n, x) ==
    LET rp == RefPattern_new(x)
    IN  IF rp.panic THEN Panic
        ELSE scan_step("generic", n, rp, n.pair_count + ((rp.s + 1) \div 2))

\* the specialised steps build no RefPattern
NoRefPattern == [panic |-> FALSE]

\* collatz_step_3n1(n)
collatz_step_3n1(n) == scan_step("3n1", n, NoRefPattern, n.pair_count + 1)

\* collatz_step_5n1(n)
collatz_step_5n1(n) == scan_step("5n1", n, NoRefPattern, n.pair_count + 1)

(***************************************************************************)
(* Packed scan (packed.rs)                                                 *)
(***************************************************************************)
\* the Kogge-Stone strides
KoggeStoneShifts == <<1, 2, 4, 8, 16, 32>>

RECURSIVE kogge_stone_rounds(_, _, _)
\* the rounds r..6 of kogge_stone_prefix
kogge_stone_rounds(g, p, r) ==
    IF r > Len(KoggeStoneShifts) THEN [g |-> g, p |-> p]
    ELSE LET shift == KoggeStoneShifts[r]
             g_shifted == Shl(g, shift)
             p_shifted == Shl(p, shift) \cup LowMask(shift)
         IN  kogge_stone_rounds(g \cup (p \cap g_shifted), p \cap p_shifted, r + 1)

RECURSIVE kogge_stone_rounds_zero_fill(_, _, _)
\* rounds whose shifted p keeps the zeros the shift lets in
kogge_stone_rounds_zero_fill(g, p, r) ==
    IF r > Len(KoggeStoneShifts) THEN [g |-> g, p |-> p]
    ELSE kogge_stone_rounds_zero_fill(
             g \cup (p \cap Shl(g, KoggeStoneShifts[r])),
             p \cap Shl(p, KoggeStoneShifts[r]), r + 1)

kogge_stone_prefix_zero_fill(g, p) == kogge_stone_rounds_zero_fill(g, p, 1)

\* kogge_stone_prefix(g, p) -> (g_prefix, p_prefix)
kogge_stone_prefix(g, p) == kogge_stone_rounds(g, p, 1)

\* a window that is empty for every negative start
extract_window_from_zero(words, pair_count, start) ==
    {j \in 0..(WORD - 1) :
        /\ start >= 0
        /\ start + j < pair_count
        /\ (start + j) \div WORD < Len(words)
        /\ ((start + j) % WORD) \in At(words, (start + j) \div WORD)}

\* extract_window(words, pair_count, start): start is a signed pair index
extract_window(words, pair_count, start) ==
    IF start >= pair_count THEN {}
    ELSE IF start < 0
    THEN LET abs_start == -start
         IN  IF abs_start >= WORD THEN {}
             ELSE LET w0 == IF Len(words) = 0 THEN {} ELSE At(words, 0)
                      val == Shl(w0, abs_start)
                      effective_end == pair_count - start
                  IN  IF effective_end < WORD THEN val \cap LowMask(effective_end)
                      ELSE val
    ELSE LET word_idx == start \div WORD
             bit_off == start % WORD
             remaining == IF pair_count >= start THEN pair_count - start ELSE 0
         IN  IF bit_off = 0
             THEN IF word_idx < Len(words)
                  THEN (IF remaining < WORD
                        THEN At(words, word_idx) \cap LowMask(remaining)
                        ELSE At(words, word_idx))
                  ELSE {}
             ELSE LET lo == IF word_idx < Len(words) THEN At(words, word_idx) ELSE {}
                      hi == IF word_idx + 1 < Len(words) THEN At(words, word_idx + 1) ELSE {}
                      val == Shr(lo, bit_off) \cup Shl(hi, WORD - bit_off)
                  IN  IF remaining < WORD THEN val \cap LowMask(remaining) ELSE val

\* majority(a, b, c)
\* majority that lets a single 1 input through
majority_any(a, b, c) == a \cup b \cup c

\* majority(a, b, c)
majority(a, b, c) == (a \cap b) \cup (b \cap c) \cup (a \cap c)

\* packed_scan_word -> [new_m4, new_m6, carry_out, g_pair, p_pair]
packed_scan_word(p_r, q_r, p_l, q_l, carry_in) ==
    LET g_mid == p_r \cap q_r
        p_mid == Xor(p_r, q_r)
        g_out == p_l \cap q_l
        p_out == Xor(p_l, q_l)
        g_pair == g_out \cup (p_out \cap g_mid)
        p_pair == p_out \cap p_mid
        pfx == kogge_stone_prefix(g_pair, p_pair)
        carry_in_broadcast == IF carry_in # 0 THEN 0..(WORD - 1) ELSE {}
        carry_after == pfx.g \cup (pfx.p \cap carry_in_broadcast)
        c_in_per_pair == Shl(carry_after, 1) \cup (IF carry_in # 0 THEN {0} ELSE {})
        new_m6 == Xor(p_mid, c_in_per_pair)
        c_mid == majority(p_r, q_r, c_in_per_pair)
        new_m4 == Xor(p_out, c_mid)
        carry_out == IF (WORD - 1) \in carry_after THEN 1 ELSE 0
    IN  [new_m4 |-> new_m4, new_m6 |-> new_m6, carry_out |-> carry_out,
         g_pair |-> g_pair, p_pair |-> p_pair]

\* the four input words of output word w, per packed step function
packed_refs(fn, m4, m6, k, t, s_is_even, base) ==
    LET a_cur == extract_window(m4, k, base)
        b_cur == extract_window(m6, k, base)
    IN  CASE fn = "3n1" ->
               \* p_r = a_prev, q_r = b_cur, p_l = b_cur, q_l = a_cur
               [p_r |-> extract_window(m4, k, base - 1), q_r |-> b_cur,
                p_l |-> b_cur, q_l |-> a_cur]
          [] fn = "5n1" ->
               \* p_r = b_prev, q_r = b_cur, p_l = a_prev, q_l = a_cur
               [p_r |-> extract_window(m6, k, base - 1), q_r |-> b_cur,
                p_l |-> extract_window(m4, k, base - 1), q_l |-> a_cur]
          [] OTHER ->
               IF s_is_even
               THEN [p_r |-> extract_window(m6, k, base - t), q_r |-> b_cur,
                     p_l |-> extract_window(m4, k, base - t), q_l |-> a_cur]
               ELSE [p_r |-> extract_window(m4, k, base - t - 1), q_r |-> b_cur,
                     p_l |-> extract_window(m6, k, base - t), q_l |-> a_cur]

\* what one iteration of the word loop leaves: the carry and the words it
\* stored (the G/P masks only for w < gpk_word_count)
packed_loop_store(o, collect) ==
    [carry |-> o.carry_out, m4 |-> <<o.new_m4>>, m6 |-> <<o.new_m6>>,
     g |-> IF collect THEN <<o.g_pair>> ELSE <<>>,
     p |-> IF collect THEN <<o.p_pair>> ELSE <<>>]

\* one iteration of the word loop on the input words r
packed_loop_body(r, collect, carry) ==
    packed_loop_store(packed_scan_word(r.p_r, r.q_r, r.p_l, r.q_l, carry), collect)

\* the loop's results for lo..mid and mid..hi, joined in order
packed_loop_join(L, R) ==
    [carry |-> R.carry, m4 |-> L.m4 \o R.m4, m6 |-> L.m6 \o R.m6,
     g |-> L.g \o R.g, p |-> L.p \o R.p]

RECURSIVE packed_loop(_, _, _, _, _, _, _, _)
RECURSIVE packed_loop_upper(_, _, _, _, _, _, _, _)
\* the loop "for w in lo..hi" of a packed step, threading the inter-word
\* carry; returns the carry and the words produced, in order.  The range is
\* split in halves to bound the nesting depth of the evaluation.
packed_loop(fn, pn, t, s_is_even, gpk_word_count, lo, hi, carry) ==
    IF lo >= hi \/ ~Evaluated(carry)
    THEN [carry |-> carry, m4 |-> <<>>, m6 |-> <<>>, g |-> <<>>, p |-> <<>>]
    ELSE IF hi - lo = 1
    THEN packed_loop_body(packed_refs(fn, pn.m4_words, pn.m6_words, pn.pair_count,
                                      t, s_is_even, lo * WORD),
                          lo < gpk_word_count, carry)
    ELSE packed_loop_upper(fn, pn, t, s_is_even, gpk_word_count, (lo + hi) \div 2, hi,
                           packed_loop(fn, pn, t, s_is_even, gpk_word_count,
                                       lo, (lo + hi) \div 2, carry))

\* the iterations mid..hi, run after the iterations L before mid
packed_loop_upper(fn, pn, t, s_is_even, gpk_word_count, mid, hi, L) ==
    packed_loop_join(L, packed_loop(fn, pn, t, s_is_even, gpk_word_count,
                                    mid, hi, L.carry))

\* sum of count_ones over the first n words
count_ones_sum(masks, n) ==
    Cardinality(UNION {{<<w, b>> : b \in At(masks, w)} : w \in 0..(n - 1)})

\* compute_gpk_counts -> (g_count, p_count, k_count), u32 arithmetic
compute_gpk_counts(g_masks, p_masks, pair_count) ==
    LET g_count == count_ones_sum(g_masks, Len(g_masks))
        p_count == count_ones_sum(p_masks, Len(g_masks))
    IN  [g_count |-> g_count, p_count |-> p_count,
         k_count |-> pair_count - g_count - p_count]

\* compute_gpk_stats -> (g_count, p_count, k_count, max_chain)
compute_gpk_stats(g_masks, p_masks, pair_count) ==
    LET c == compute_gpk_counts(g_masks, p_masks, pair_count)
        cs == chain_loop(g_masks, p_masks, 0, pair_count,
                         [chain |-> 0, max_chain |-> 0, carry |-> TRUE])
    IN  [g_count |-> c.g_count, p_count |-> c.p_count, k_count |-> c.k_count,
         max_chain |-> MaxNat(cs.chain, cs.max_chain)]

\* PackedStepResult { .. } as the packed steps fill it
PackedStepResult(pp, stats, g_masks, p_masks) ==
    [panic |-> FALSE,
     new_m4 |-> pp.next.m4_words, new_m6 |-> pp.next.m6_words,
     new_pair_count |-> pp.next.pair_count,
     d |-> pp.d, exchanged |-> pp.exchanged,
     g_count |-> stats.g_count, p_count |-> stats.p_count,
     k_count |-> stats.k_count, max_carry_chain |-> stats.max_chain,
     g_masks |-> g_masks, p_masks |-> p_masks]

\* the GPK statistics (when collected) and postprocess
packed_step_stats(k, out_pairs, collect_gpk, new_m4, new_m6, g_masks, p_masks) ==
    PackedStepResult(
        postprocess(new_m4, new_m6, out_pairs),
        IF collect_gpk THEN compute_gpk_stats(g_masks, p_masks, k)
        ELSE [g_count |-> 0, p_count |-> 0, k_count |-> 0, max_chain |-> 0],
        g_masks, p_masks)

\* after the word loop lp: the top masks of the four streams
packed_step_masked(k, out_pairs, collect_gpk, lp) ==
    packed_step_stats(k, out_pairs, collect_gpk,
                      mask_top(lp.m4, out_pairs), mask_top(lp.m6, out_pairs),
                      IF collect_gpk THEN mask_top(lp.g, k) ELSE <<>>,
                      IF collect_gpk THEN mask_top(lp.p, k) ELSE <<>>)

\* the part common to packed_step_3n1_opt, packed_step_5n1_opt and
\* packed_step_generic_opt after the choice of out_pairs
packed_step(fn, pn, t, s_is_even, out_pairs, collect_gpk) ==
    LET k == pn.pair_count
        out_words == (out_pairs + (WORD - 1)) \div WORD
        gpk_word_count == IF collect_gpk THEN (k + (WORD - 1)) \div WORD ELSE 0
    IN  packed_step_masked(k, out_pairs, collect_gpk,
            packed_loop(fn, pn, t, s_is_even, gpk_word_count, 0, out_words, 1))

\* packed_step_3n1_opt(pn, collect_gpk)
packed_step_3n1_opt(pn, collect_gpk) ==
    packed_step("3n1", pn, 0, FALSE, pn.pair_count + 2, collect_gpk)

\* packed_step_5n1_opt(pn, collect_gpk)
packed_step_5n1_opt(pn, collect_gpk) ==
    packed_step("5n1", pn, 1, TRUE, pn.pair_count + 2, collect_gpk)

\* packed_step_generic_opt(pn, x, collect_gpk): x - 1 overflows for x = 0
\* (abort in a checked build, u64::MAX in an unchecked one, which then
\* fails the assertion), and the assertion checks x - 1 only
packed_step_generic_opt(pn, x, collect_gpk) ==
    IF x = {} THEN Panic
    ELSE LET xm1 == U64MinusOne(x)
         IN  IF ~is_power_of_two(xm1) THEN Panic
             ELSE LET s == TrailingZeros(xm1)
                      extra_pairs == ((s + 1) \div 2) + 1
                  IN  packed_step("generic", pn, s \div 2, s % 2 = 0,
                                  pn.pair_count + extra_pairs, collect_gpk)

(***************************************************************************)
(* Reference arithmetic on unbounded integers (the "standard big-integer   *)
(* library" the tests compare against: x*n+1, trailing_zeros, >>)          *)
(***************************************************************************)
BigShl(n, s) == {i + s : i \in n}

BigShr(n, d) == {i - d : i \in {j \in n : j >= d}}

RECURSIVE AddBits(_, _, _, _, _)
\* binary addition of the bits lo..hi-1 of a and b with carry-in c
AddBits(a, b, lo, hi, c) ==
    IF ~Evaluated(c) THEN [sum |-> {}, c |-> c]
    ELSE IF hi - lo = 1
    THEN LET t == Bit(a, lo) + Bit(b, lo) + c
         IN  [sum |-> IF t % 2 = 1 THEN {lo} ELSE {}, c |-> t \div 2]
    ELSE LET mid == (lo + hi) \div 2
             L == AddBits(a, b, lo, mid, c)
             R == AddBits(a, b, mid, hi, L.c)
         IN  [sum |-> L.sum \cup R.sum, c |-> R.c]

BigAdd(a, b) ==
    IF b = {} THEN a
    ELSE IF a = {} THEN b
    ELSE AddBits(a, b, 0, MaxNat(BigBits(a), BigBits(b)) + 1, 0).sum

RECURSIVE BigMul(_, _)
\* n * x, by the bits of x
BigMul(n, x) ==
    IF x = {} THEN {}
    ELSE LET b == SetMin(x) IN BigAdd(BigShl(n, b), BigMul(n, x \ {b}))

BigTrailingZeros(n) == SetMin(n)

\* one reference step: n -> (x*n+1) >> tz(x*n+1)
RefStep(n, x) ==
    LET xn1 == BigAdd(BigMul(n, x), BigOne)
        d == BigTrailingZeros(xn1)
    IN  [xn1 |-> xn1, d |-> d, next |-> BigShr(xn1, d)]

BigOdd(n) == 0 \in n

(***************************************************************************)
(* Fixed-width arithmetic of the stopping-time fast path (trajectory.rs)   *)
(***************************************************************************)
\* Option<T>
Some(v) == [panic |-> FALSE, some |-> TRUE, v |-> v]

None == [panic |-> FALSE, some |-> FALSE]

\* the low w bits of v: what a w-bit register keeps
Trunc(v, w) == {i \in v : i < w}

\* u128::MAX - 1
U128MaxMinus1 == 1..(U128_BITS - 1)

\* current <= overflow_limit, overflow_limit = (u128::MAX - 1) / x128:
\* for x >= 1, current <= floor(M / x) exactly when current * x <= M
within_overflow_limit(current, x) ==
    BigCmp(BigMul(current, x), U128MaxMinus1) # "Greater"

\* u128: current * x128 + 1, kept to 128 bits
u128_mul_add_one(current, x) ==
    Trunc(BigAdd(BigMul(current, x), BigOne), U128_BITS)

\* u128::trailing_zeros
u128_trailing_zeros(v) == IF v = {} THEN U128_BITS ELSE SetMin(v)

\* U256::from_u128
U256_from_u128(v) == v

\* U256::mul_small_checked: None when the product leaves 256 bits
U256_mul_small_checked(v, x) ==
    LET prod == BigMul(v, x)
    IN  IF \E i \in prod : i >= U256_BITS THEN None ELSE Some(prod)

\* U256::add_one: the carry out of the top limb is dropped
U256_add_one(v) == Trunc(BigAdd(v, BigOne), U256_BITS)

\* U256::trailing_zeros
U256_trailing_zeros(v) == IF v = {} THEN U256_BITS ELSE SetMin(v)

\* U256::shr
U256_shr(v, d) ==
    IF d = 0 THEN v
    ELSE IF d >= U256_BITS THEN {}
    ELSE BigShr(v, d)

\* U256::is_one
U256_is_one(v) == v = {0}

\* U256::lt_u128
U256_lt_u128(v, u) ==
    IF \E i \in v : i >= U128_BITS THEN FALSE
    ELSE BigCmp(v, u) = "Less"

\* U256::to_biguint: the 32 little-endian bytes of the limbs, from_bytes_le
U256_to_biguint(v) ==
    FromBytesLe([j \in 1..(U256_BITS \div 8) |->
        Bit(v, 8 * (j - 1)) + 2 * Bit(v, 8 * (j - 1) + 1)
      + 4 * Bit(v, 8 * (j - 1) + 2) + 8 * Bit(v, 8 * (j - 1) + 3)
      + 16 * Bit(v, 8 * (j - 1) + 4) + 32 * Bit(v, 8 * (j - 1) + 5)
      + 64 * Bit(v, 8 * (j - 1) + 6) + 128 * Bit(v, 8 * (j - 1) + 7)])

\* the packed step a trajectory takes for multiplier x
packed_step_for(pn, x, collect_gpk) ==
    IF x = {0, 1} THEN packed_step_3n1_opt(pn, collect_gpk)
    ELSE IF x = {0, 2} THEN packed_step_5n1_opt(pn, collect_gpk)
    ELSE packed_step_generic_opt(pn, x, collect_gpk)

\* the sequential step the tracer takes for multiplier x
collatz_step_for(pn, x) ==
    IF x = {0, 1} THEN collatz_step_3n1(pn)
    ELSE IF x = {0, 2} THEN collatz_step_5n1(pn)
    ELSE collatz_step(pn, x)

\* GpkStats::new
GpkStats_new ==
    [total_g |-> 0, total_p |-> 0, total_k |-> 0, total_pairs |-> 0,
     total_steps |-> 0, carry_chain_hist |-> [i \in 0..127 |-> 0]]

\* an accumulate that indexes the histogram by the chain length itself
accumulate_unclamped(stats, info) ==
    [total_g |-> stats.total_g + info.g_count,
     total_p |-> stats.total_p + info.p_count,
     total_k |-> stats.total_k + info.k_count,
     total_pairs |-> stats.total_pairs + info.active_pairs,
     total_steps |-> stats.total_steps + 1,
     carry_chain_hist |->
         [i \in 0..127 |-> stats.carry_chain_hist[i]
                              + (IF i = info.max_carry_chain THEN 1 ELSE 0)]]

\* GpkStats::accumulate
accumulate(stats, info) ==
    LET idx == MinNat(info.max_carry_chain, 127)
    IN  [total_g |-> stats.total_g + info.g_count,
         total_p |-> stats.total_p + info.p_count,
         total_k |-> stats.total_k + info.k_count,
         total_pairs |-> stats.total_pairs + info.active_pairs,
         total_steps |-> stats.total_steps + 1,
         carry_chain_hist |->
             [stats.carry_chain_hist EXCEPT ![idx] = @ + 1]]

(***************************************************************************)
(* Reference iteration n <- (x*n+1) >> tz(x*n+1) on unbounded integers     *)
(***************************************************************************)
\* the number of pairs of an integer
PairsOf(v) == MaxNat(1, DivCeil(BigBits(v), 2))

\* the element of a one-element set
TheOnly(S) == CHOOSE v \in S : TRUE

RECURSIVE RefStopFrom(_, _, _, _, _, _)
\* the reference iteration from cur, done steps already taken
RefStopFrom(cur, n, x, done, max_steps, use_stopping_time) ==
    IF done >= max_steps THEN None
    ELSE TheOnly({
           IF nx = BigOne THEN Some(done + 1)
           ELSE IF use_stopping_time /\ BigCmp(nx, n) = "Less" THEN Some(done + 1)
           ELSE IF PairsOf(nx) > MAX_PAIR_COUNT THEN None
           ELSE RefStopFrom(nx, n, x, done + 1, max_steps, use_stopping_time) :
           nx \in {RefStep(cur, x).next}})

\* the stopping time by the reference iteration: same stopping predicate,
\* step budget and divergence cap
RefStop(n, x, max_steps, use_stopping_time) ==
    IF n = BigOne THEN Some(0)
    ELSE RefStopFrom(n, n, x, 0, max_steps, use_stopping_time)

RECURSIVE RefIterates(_, _, _)
\* the first k iterates of the reference iteration after cur, in order
RefIterates(cur, x, k) ==
    IF k = 0 THEN <<>>
    ELSE TheOnly({<<nx>> \o RefIterates(nx, x, k - 1) :
                     nx \in {RefStep(cur, x).next}})

(***************************************************************************)
(* Inputs                                                                  *)
(***************************************************************************)
SmallInputs == {NatBits(v) : v \in 0..MaxSmall}

\* values whose pair count is next to the word boundary (64 pairs):
\* all-ones 2^m - 1, 2^m + 1, and 0101...01 (x = 3 gives 3n+1 = 4^65)
LargeInputs ==
    {0..(m - 1) : m \in (2 * WORD - 3)..(2 * WORD + 3)}
      \cup {{0, m} : m \in (2 * WORD - 2)..(2 * WORD + 1)}
      \cup {{2 * i : i \in 0..WORD}}
      \cup {(0..(2 * WORD + 1)) \ {1, 2 * WORD - 1}}

InputsN == SmallInputs \cup LargeInputs

\* the bit list of length len whose 1 bits are at the positions of S
BitList(S, len) == [i \in 1..len |-> IF (i - 1) \in S THEN 1 ELSE 0]

\* every short bit list (empty, odd length, leading zero pairs), and long
\* ones whose zero top pairs end next to the word boundary
InputsBits ==
    UNION {[1..len -> {0, 1}] : len \in 0..MaxBitsLen}
      \cup {BitList(S, 2 * WORD + 5) :
               S \in {{0}, {0, 2 * WORD - 3}, {0, 2 * WORD - 1},
                       {0, 2 * WORD}, {0, 2 * WORD + 3}, {1, 2 * WORD - 2}}}

\* the integer a bit list stands for
BitsValue(bits) == {i \in 0..(Len(bits) - 1) : bits[i + 1] = 1}

\* u64 values of x: 2^s + 1 for s in 1..MaxS, 2^32 + 1, 2^63 + 1
ValidX == {{0, s} : s \in 1..MaxS} \cup {{0, 32}, {0, WORD - 1}}

\* 0, 1, 2, 4, 6, 7
InvalidX == {{}, {0}, {1}, {2}, {1, 2}, {0, 1, 2}}

\* starts of trajectories: small values, and 64-bit values that leave the
\* 128-bit and the 256-bit phase within a few steps of x = 2^63 + 1
TrajStartsU64 ==
    {NatBits(v) : v \in 0..MaxTrajN}
      \cup {0..(WORD - 1), {0, WORD - 1}, {0, 1, WORD - 1}}

\* starts beyond 64 bits, for x = 3: 2^20001 + 1, whose successor is smaller
\* and has 10,001 pairs, and 2^19999 - 1, whose successors have 10,000 pairs
\* at the first step and 10,001 pairs at the second
TrajStartsBig ==
    {{0, 2 * MAX_PAIR_COUNT + 1}, 0..(2 * MAX_PAIR_COUNT - 2)}

\* multipliers given to trajectories: 3, 5, 9, 2^63 + 1 and 0, 1, 2, 7
TrajX == {{0, 1}, {0, 2}, {0, 3}, {0, WORD - 1}, {}, {0}, {1}, {0, 1, 2}}

StepBudgets == {0, 1, 2, MaxSteps}

\* (n, x) given to stopping_time_u64_fast
TrajInputsU64 == TrajStartsU64 \X TrajX

\* (n, x) given to stopping_time, stopping_time_with_gpk and trace_trajectory:
\* the starts beyond 64 bits run with x = 3
TrajInputs == TrajInputsU64 \cup (TrajStartsBig \X {{0, 1}})

(***************************************************************************)
(* State                                                                   *)
(***************************************************************************)
VARIABLES
    pn,     \* the PairNumber under test
    val,    \* the integer pn stands for, tracked by the reference arithmetic
    depth,  \* number of steps from the constructed input to pn
    last,   \* the last operation applied to pn, with its arguments and result
    call,   \* the trajectory function running and its arguments
    pc,     \* where the running function stands
    cur,    \* its running value: current (u128), cur256 (U256) or pn / pair
    nxt,    \* the iterate produced by its last step, and the phase that took it
    steps,  \* its step counter
    trace,  \* the TrajectoryResult under construction
    ret,    \* what the function returned
    cancel, \* the AtomicBool a cancellable call polls
    calls,  \* the invocations of the caller's callback, in order
    vcall,  \* the parallel verifier running and its arguments
    tasks,  \* for each chunk index, where its closure stands and its locals
    glob,   \* global_done, global_max_st, global_max_st_n (and who holds its
            \* mutex), global_failures, global_gpk_stats
    vret,   \* what the verifier returned
    driver, \* the function of the host UI that spawns the worker threads
    state,  \* the Arc<Mutex<..State>> the UI and the workers share: its
            \* running and result fields, whether the mutex is held by a
            \* worker and whether it is poisoned
    threads, \* the worker threads spawned so far: where each stands
    unit,   \* the last call of a single function: its arguments and result
    ustats  \* two GpkStats under accumulate and merge

stepvars == <<pn, val, depth, last>>

trajvars == <<call, pc, cur, nxt, steps, trace, ret>>

cancelvars == <<cancel, calls>>

verifyvars == <<vcall, tasks, glob, vret>>

guivars == <<driver, state, threads>>

unitvars == <<unit, ustats>>

\* what the actions of one specification leave alone of the others' state
offStep == <<trajvars, cancelvars, verifyvars, guivars, unitvars>>

offTraj == <<stepvars, cancelvars, verifyvars, guivars, unitvars>>

offTrace == <<stepvars, verifyvars, guivars, unitvars>>

vars == <<pn, val, depth, last, call, pc, cur, nxt, steps, trace, ret, cancel, calls,
          vcall, tasks, glob, vret, driver, state, threads, unit, ustats>>

NoOp == [op |-> "none"]

\* no value yet
Absent == [panic |-> FALSE, absent |-> TRUE]

(***************************************************************************)
(* Spec: construction, conversion, comparison and single steps             *)
(***************************************************************************)
Init ==
    /\ pn = Absent
    /\ val = BigZero
    /\ depth = 0
    /\ last = NoOp
    /\ call = [fn |-> "none"]
    /\ pc = "idle"
    /\ cur = Absent
    /\ nxt = [phase |-> "none"]
    /\ steps = 0
    /\ trace = Absent
    /\ ret = Absent
    /\ cancel = FALSE
    /\ calls = <<>>
    /\ vcall = [fn |-> "none"]
    /\ tasks = <<>>
    /\ glob = Absent
    /\ vret = Absent
    /\ driver = "none"
    /\ state = [running |-> FALSE, result |-> FALSE, held |-> FALSE,
                poisoned |-> FALSE]
    /\ threads = <<>>
    /\ unit = [fn |-> "none"]
    /\ ustats = <<GpkStats_new, GpkStats_new>>

\* pn has just been produced and nothing has been applied to it yet
Fresh == last.op \in {"from_biguint", "from_bits_lsb", "advance"}

\* PairNumber::from_biguint(v)
FromBiguint ==
    /\ pn = Absent
    /\ \E v \in InputsN :
         /\ pn' = from_biguint(v)
         /\ val' = v
    /\ last' = [op |-> "from_biguint"]
    /\ UNCHANGED <<depth, offStep>>

\* PairNumber::from_bits_lsb(&bits)
FromBitsLsb ==
    /\ pn = Absent
    /\ \E bits \in InputsBits :
         /\ pn' = from_bits_lsb(bits)
         /\ val' = BitsValue(bits)
         /\ last' = [op |-> "from_bits_lsb", bits |-> bits]
    /\ UNCHANGED <<depth, offStep>>

\* n.to_bits_lsb()
ToBitsLsb ==
    /\ Fresh
    /\ last' = [op |-> "to_bits_lsb", bits |-> to_bits_lsb(pn),
                pn2 |-> from_bits_lsb(to_bits_lsb(pn))]
    /\ UNCHANGED <<pn, val, depth, offStep>>

\* n.to_biguint()
ToBiguint ==
    /\ Fresh
    /\ last' = [op |-> "to_biguint", back |-> to_biguint(pn)]
    /\ UNCHANGED <<pn, val, depth, offStep>>

\* pn.cmp(&PairNumber::from_biguint(v))
Compare ==
    /\ last.op = "from_biguint"
    /\ \E v \in InputsN :
         last' = [op |-> "cmp", other |-> v, ord |-> cmp(pn, from_biguint(v))]
    /\ UNCHANGED <<pn, val, depth, offStep>>

\* collatz_step(&pn, x), collatz_step_3n1(&pn), collatz_step_5n1(&pn); a
\* sequence of steps keeps its multiplier and its step function
SeqStep ==
    /\ Fresh
    /\ \E fn \in {"generic", "3n1", "5n1"}, x \in ValidX \cup InvalidX :
         /\ fn = "3n1" => x = {0, 1}
         /\ fn = "5n1" => x = {0, 2}
         /\ last.op = "advance" => (fn = last.fn /\ x = last.x)
         /\ last' = [op |-> "seq", fn |-> fn, x |-> x,
                     seq |-> CASE fn = "3n1" -> collatz_step_3n1(pn)
                               [] fn = "5n1" -> collatz_step_5n1(pn)
                               [] OTHER -> collatz_step(pn, x),
                     pk |-> Absent]
    /\ UNCHANGED <<pn, val, depth, offStep>>

\* the packed counterpart of the sequential step just taken, on the same
\* input: packed_step_generic(&pn, x), packed_step_3n1(&pn), packed_step_5n1(&pn)
PackedStep ==
    /\ last.op = "seq"
    /\ last' = [last EXCEPT
                  !.op = "both",
                  !.pk = CASE last.fn = "3n1" -> packed_step_3n1_opt(pn, TRUE)
                           [] last.fn = "5n1" -> packed_step_5n1_opt(pn, TRUE)
                           [] OTHER -> packed_step_generic_opt(pn, last.x, TRUE)]
    /\ UNCHANGED <<pn, val, depth, offStep>>

\* the step's output becomes the next input
Advance ==
    /\ last.op \in {"seq", "both"}
    /\ depth < MaxChain
    /\ \/ /\ ~last.seq.panic
          /\ pn' = last.seq.next
       \/ /\ last.op = "both"
          /\ ~last.pk.panic
          /\ pn' = from_packed(last.pk.new_m4, last.pk.new_m6, last.pk.new_pair_count)
    /\ val' = RefStep(val, last.x).next
    /\ depth' = depth + 1
    /\ last' = [op |-> "advance", fn |-> last.fn, x |-> last.x]
    /\ UNCHANGED offStep

Next ==
    \/ FromBiguint
    \/ FromBitsLsb
    \/ ToBiguint
    \/ ToBitsLsb
    \/ Compare
    \/ SeqStep
    \/ PackedStep
    \/ Advance

Spec == Init /\ [][Next]_vars

(***************************************************************************)
(* SpecTraj: stopping_time_with_gpk, stopping_time_u64_fast and            *)
(* trace_trajectory, one action per loop iteration; gpk_stats = None       *)
(***************************************************************************)
\* u128 "<" with the operands exchanged
u128_gt(a, b) == BigCmp(a, b) = "Greater"

\* u128 "current < n128"
u128_lt(a, b) == BigCmp(a, b) = "Less"

\* a divergence test that never fires
exceeds_cap_never(p) == FALSE

\* next.pair_count() > MAX_PAIR_COUNT
exceeds_cap(p) == p.pair_count > MAX_PAIR_COUNT

\* a loop condition that allows one step more than the budget
PairScanContinuesOneMore == steps <= call.max_steps

\* the condition "steps < max_steps" of the pair-scan loops
PairScanContinues == steps < call.max_steps

\* the function returns v
Return(v) ==
    /\ ret' = v
    /\ pc' = "done"

\* initial_pn, the pair-number of the start kept for the comparison
initial_pn == call.initial_pn

\* stopping_time(n, x, max_steps) and
\* stopping_time_with_gpk(n, x, max_steps, None, use_stopping_time), up to
\* the loop
StoppingTimeCall ==
    /\ pc = "idle"
    /\ \E nx \in TrajInputs : \E start \in {from_biguint(nx[1])} :
       \E fn \in {"stopping_time", "stopping_time_with_gpk"},
          max_steps \in StepBudgets, use_stopping_time \in BOOLEAN :
         /\ fn = "stopping_time" => use_stopping_time
         /\ call' = [fn |-> fn, n |-> nx[1], x |-> nx[2], max_steps |-> max_steps,
                     use_phase1 |-> FALSE, use_stopping_time |-> use_stopping_time,
                     initial_pn |-> start]
         /\ IF nx[1] = BigOne
            THEN Return(Some(0)) /\ UNCHANGED cur
            ELSE /\ cur' = start
                 /\ pc' = "pair_scan"
                 /\ UNCHANGED ret
    /\ UNCHANGED <<nxt, steps, trace, offTraj>>

\* one iteration of the pair-scan loop "while steps < max_steps" of
\* stopping_time_with_gpk and of both Phase 2 loops of stopping_time_u64_fast
PairScanIteration ==
    /\ pc = "pair_scan"
    /\ PairScanContinues
    /\ \E result \in {packed_step_for(cur, call.x, FALSE)} :
           IF result.panic
           THEN Return(Panic) /\ UNCHANGED <<cur, nxt, steps>>
           ELSE \E next \in {from_packed(result.new_m4, result.new_m6,
                                         result.new_pair_count)} :
                /\ nxt' = [phase |-> "pair_scan", v |-> next]
                /\ steps' = steps + 1
                /\ IF is_one(next)
                   THEN Return(Some(steps + 1)) /\ UNCHANGED cur
                   ELSE IF call.use_stopping_time /\ cmp(next, initial_pn) = "Less"
                   THEN Return(Some(steps + 1)) /\ UNCHANGED cur
                   ELSE IF exceeds_cap(next)
                   THEN Return(None) /\ UNCHANGED cur
                   ELSE cur' = next /\ UNCHANGED <<pc, ret>>
    /\ UNCHANGED <<call, trace, offTraj>>

\* the pair-scan loop ends with the budget used up
PairScanExit ==
    /\ pc = "pair_scan"
    /\ ~PairScanContinues
    /\ Return(None)
    /\ UNCHANGED <<call, cur, nxt, steps, trace, offTraj>>

\* stopping_time_u64_fast(n, x, max_steps, None, use_phase1,
\* use_stopping_time), up to the Phase 1 loop; the division by x128 aborts
\* for x = 0
FastCall ==
    /\ pc = "idle"
    /\ \E nx \in TrajInputsU64, max_steps \in StepBudgets,
          use_phase1 \in BOOLEAN, use_stopping_time \in BOOLEAN :
         /\ call' = [fn |-> "stopping_time_u64_fast", n |-> nx[1], x |-> nx[2],
                     max_steps |-> max_steps, use_phase1 |-> use_phase1,
                     use_stopping_time |-> use_stopping_time,
                     initial_pn |-> from_biguint(nx[1])]
         /\ IF nx[1] = BigOne THEN Return(Some(0)) /\ UNCHANGED cur
            ELSE IF nx[2] = {} THEN Return(Panic) /\ UNCHANGED cur
            ELSE /\ cur' = nx[1]
                 /\ pc' = "phase1"
                 /\ UNCHANGED ret
    /\ UNCHANGED <<nxt, steps, trace, offTraj>>

\* the condition of the Phase 1 loop
Phase1Continues ==
    /\ call.use_phase1
    /\ steps < call.max_steps
    /\ within_overflow_limit(cur, call.x)

\* Phase 1: one iteration in u128
Phase1Iteration ==
    /\ pc = "phase1"
    /\ Phase1Continues
    /\ \E xn1 \in {u128_mul_add_one(cur, call.x)} :
       \E current \in {Shr(xn1, u128_trailing_zeros(xn1))} :
           /\ nxt' = [phase |-> "phase1", v |-> current]
           /\ steps' = steps + 1
           /\ IF current = BigOne
              THEN Return(Some(steps + 1)) /\ UNCHANGED cur
              ELSE IF call.use_stopping_time /\ u128_lt(current, call.n)
              THEN Return(Some(steps + 1)) /\ UNCHANGED cur
              ELSE cur' = current /\ UNCHANGED <<pc, ret>>
    /\ UNCHANGED <<call, trace, offTraj>>

\* after the Phase 1 loop: Phase 1.5 if use_phase1 and budget is left,
\* otherwise the final Phase 2 block, which returns None without budget
Phase1Exit ==
    /\ pc = "phase1"
    /\ ~Phase1Continues
    /\ IF call.use_phase1 /\ steps < call.max_steps
       THEN /\ cur' = U256_from_u128(cur)
            /\ pc' = "phase15"
            /\ UNCHANGED ret
       ELSE IF steps < call.max_steps
       THEN /\ cur' = from_biguint(cur)
            /\ pc' = "pair_scan"
            /\ UNCHANGED ret
       ELSE Return(None) /\ UNCHANGED cur
    /\ UNCHANGED <<call, nxt, steps, trace, offTraj>>

\* Phase 1.5: one iteration in U256, or the switch to the pair scan when
\* x * cur256 leaves 256 bits
Phase15Iteration ==
    /\ pc = "phase15"
    /\ steps < call.max_steps
    /\ \E prod \in {U256_mul_small_checked(cur, call.x)} :
           IF ~prod.some
           THEN /\ cur' = from_biguint(U256_to_biguint(cur))
                /\ pc' = "pair_scan"
                /\ UNCHANGED <<nxt, steps, ret>>
           ELSE \E xn1 \in {U256_add_one(prod.v)} :
                \E cur256 \in {U256_shr(xn1, U256_trailing_zeros(xn1))} :
                    /\ nxt' = [phase |-> "phase15", v |-> cur256]
                    /\ steps' = steps + 1
                    /\ IF U256_is_one(cur256)
                       THEN Return(Some(steps + 1)) /\ UNCHANGED cur
                       ELSE IF call.use_stopping_time /\ U256_lt_u128(cur256, call.n)
                       THEN Return(Some(steps + 1)) /\ UNCHANGED cur
                       ELSE cur' = cur256 /\ UNCHANGED <<pc, ret>>
    /\ UNCHANGED <<call, trace, offTraj>>

\* the Phase 1.5 loop ends with the budget used up
Phase15Exit ==
    /\ pc = "phase15"
    /\ steps >= call.max_steps
    /\ Return(None)
    /\ UNCHANGED <<call, cur, nxt, steps, trace, offTraj>>

\* the locals of the tracers before the loop: pair, the vectors, the
\* statistics, max_value, reached_one and the PairStep of the start
TraceLocals(start, pair) ==
    [start |-> start,
     steps |-> <<>>,
     pair_steps |-> <<[m4_words |-> pair.m4_words,
                       m6_words |-> pair.m6_words,
                       pair_count |-> pair.pair_count,
                       d |-> 0, exchanged |-> FALSE,
                       raw_m4_words |-> <<>>,
                       raw_m6_words |-> <<>>,
                       raw_pair_count |-> 0]>>,
     gpk_per_step |-> <<>>,
     gpk_stats |-> GpkStats_new,
     total_steps |-> 0,
     max_value |-> start,
     reached_one |-> is_one(pair)]

\* trace_trajectory(start, x, max_steps) on given arguments, up to the loop
TraceEntry(start, pair, x, max_steps) ==
    /\ call' = [fn |-> "trace_trajectory", n |-> start, x |-> x,
                max_steps |-> max_steps, use_phase1 |-> FALSE,
                use_stopping_time |-> FALSE]
    /\ cur' = pair
    /\ trace' = TraceLocals(start, pair)
    /\ pc' = "trace_loop"

\* trace_trajectory(start, x, max_steps), up to the loop
TraceCall ==
    /\ pc = "idle"
    /\ \E nx \in TrajInputs : \E pair \in {from_biguint(nx[1])} :
         \E max_steps \in StepBudgets : TraceEntry(nx[1], pair, nx[2], max_steps)
    /\ UNCHANGED <<nxt, steps, ret, offTraj>>

\* the condition of the tracers' loop
TraceContinues == ~trace.reached_one /\ trace.total_steps < call.max_steps

\* a running maximum that follows the last value
trace_max_value_last(n_val, max_value) == n_val

\* if n_val > max_value { max_value = n_val }
trace_max_value(n_val, max_value) ==
    IF BigCmp(n_val, max_value) = "Greater" THEN n_val ELSE max_value

\* the tracers' loop body from "total_steps += 1" to the update of
\* reached_one: the locals after the step whose result is given
TraceStepUpdate(result, n_val) ==
    [start |-> trace.start,
     steps |-> Append(trace.steps, [n |-> n_val, d |-> result.d]),
     pair_steps |->
         Append(trace.pair_steps,
                [m4_words |-> result.next.m4_words,
                 m6_words |-> result.next.m6_words,
                 pair_count |-> result.next.pair_count,
                 d |-> result.d, exchanged |-> result.exchanged,
                 raw_m4_words |-> result.raw_m4,
                 raw_m6_words |-> result.raw_m6,
                 raw_pair_count |-> result.raw_pair_count]),
     gpk_per_step |-> Append(trace.gpk_per_step, result.gpk),
     gpk_stats |-> accumulate(trace.gpk_stats, result.gpk),
     total_steps |-> trace.total_steps + 1,
     max_value |-> trace_max_value(n_val, trace.max_value),
     reached_one |-> IF is_one(result.next) THEN TRUE ELSE trace.reached_one]

\* one iteration of the tracer's loop; the break on MAX_PAIR_COUNT leaves
\* the loop at once
TraceIteration ==
    /\ pc = "trace_loop"
    /\ TraceContinues
    /\ \E result \in {collatz_step_for(cur, call.x)} :
           IF result.panic
           THEN Return(Panic) /\ UNCHANGED <<cur, nxt, steps, trace>>
           ELSE
           \E updated \in {TraceStepUpdate(result, to_biguint(result.next))} :
               /\ trace' = updated
               /\ nxt' = [phase |-> "trace", v |-> result.next]
               /\ steps' = steps + 1
               /\ IF exceeds_cap(result.next)
                  THEN Return([panic |-> FALSE, result |-> updated]) /\ UNCHANGED cur
                  ELSE cur' = result.next /\ UNCHANGED <<pc, ret>>
    /\ UNCHANGED <<call, offTraj>>

\* the tracer's loop ends: 1 reached or the budget used up
TraceExit ==
    /\ pc = "trace_loop"
    /\ ~TraceContinues
    /\ Return([panic |-> FALSE, result |-> trace])
    /\ UNCHANGED <<call, cur, nxt, steps, trace, offTraj>>

NextTraj ==
    \/ StoppingTimeCall
    \/ PairScanIteration
    \/ PairScanExit
    \/ FastCall
    \/ Phase1Iteration
    \/ Phase1Exit
    \/ Phase15Iteration
    \/ Phase15Exit
    \/ TraceCall
    \/ TraceIteration
    \/ TraceExit

SpecTraj == Init /\ [][NextTraj]_vars

(***************************************************************************)
(* SpecTrace: the tracer on the paper's example and the cancellable tracer *)
(* with the thread that raises the cancel flag                             *)
(***************************************************************************)
\* arguments <<start, x, max_steps>> of the tracers: the trajectory of 27
\* under 3n+1 with the budget of the paper's example, and small starts with
\* x = 3, 5, 9 and the invalid x = 7
TraceInputs ==
    {<<NatBits(PaperStart), {0, 1}, PaperBudget>>}
      \cup ({NatBits(v) : v \in 0..MaxTraceN}
               \X {{0, 1}, {0, 2}, {0, 3}, {0, 1, 2}}
               \X {0, 2, MaxSteps})

\* trace_trajectory(start, x, max_steps) on the paper's arguments
PaperTraceCall ==
    /\ pc = "idle"
    /\ \E a \in TraceInputs : TraceEntry(a[1], from_biguint(a[1]), a[2], a[3])
    /\ UNCHANGED <<nxt, steps, ret, cancelvars, offTrace>>

\* a poll that never sees the flag
cancel_load_never == FALSE

\* cancel.load(Ordering::Relaxed)
cancel_load == cancel

\* trace_trajectory_cancellable(start, x, max_steps, &cancel, callback), up
\* to the loop; the flag handed over may be raised already
CancellableCall ==
    /\ pc = "idle"
    /\ \E a \in TraceInputs, raised \in BOOLEAN :
         /\ a[3] <= MaxSteps
         /\ call' = [fn |-> "trace_trajectory_cancellable", n |-> a[1], x |-> a[2],
                     max_steps |-> a[3], use_phase1 |-> FALSE,
                     use_stopping_time |-> FALSE, raised_at_call |-> raised]
         /\ cur' = from_biguint(a[1])
         /\ trace' = TraceLocals(a[1], from_biguint(a[1]))
         /\ cancel' = raised
    /\ calls' = <<>>
    /\ pc' = "cancel_loop"
    /\ UNCHANGED <<nxt, steps, ret, offTrace>>

\* the loop condition and the poll of the flag before a step: the loop is
\* left when 1 is reached, the budget is used up or the flag is seen raised
CancellableCheck ==
    /\ pc = "cancel_loop"
    /\ IF TraceContinues /\ ~cancel_load
       THEN pc' = "cancel_step" /\ UNCHANGED ret
       ELSE Return([panic |-> FALSE, result |-> trace])
    /\ UNCHANGED <<call, cur, nxt, steps, trace, cancelvars, offTrace>>

\* the loop body after the poll: the step, the records, the callback, the
\* break on MAX_PAIR_COUNT
CancellableStep ==
    /\ pc = "cancel_step"
    /\ \E result \in {collatz_step_for(cur, call.x)} :
           IF result.panic
           THEN Return(Panic) /\ UNCHANGED <<cur, nxt, steps, trace, calls>>
           ELSE
           \E updated \in {TraceStepUpdate(result, to_biguint(result.next))} :
               /\ trace' = updated
               /\ calls' = Append(calls, [step |-> updated.total_steps,
                                          digits |-> result.next.pair_count * 2,
                                          d |-> result.d])
               /\ nxt' = [phase |-> "trace", v |-> result.next]
               /\ steps' = steps + 1
               /\ IF exceeds_cap(result.next)
                  THEN Return([panic |-> FALSE, result |-> updated]) /\ UNCHANGED cur
                  ELSE cur' = result.next /\ pc' = "cancel_loop" /\ UNCHANGED ret
    /\ UNCHANGED <<call, cancel, offTrace>>

\* another thread stores true into the flag while the call runs
RaiseCancel ==
    /\ call.fn = "trace_trajectory_cancellable"
    /\ pc \in {"cancel_loop", "cancel_step"}
    /\ ~cancel
    /\ cancel' = TRUE
    /\ UNCHANGED <<trajvars, calls, offTrace>>

NextTrace ==
    \/ PaperTraceCall
    \/ TraceIteration
    \/ TraceExit
    \/ CancellableCall
    \/ CancellableCheck
    \/ CancellableStep
    \/ RaiseCancel

SpecTrace == Init /\ [][NextTrace]_vars

(***************************************************************************)
(* stopping_time_u64_fast as a function, with the statistics it collects   *)
(***************************************************************************)
\* the G/P/K class of pair i of the scalar n (accumulate_gpk_u128 and
\* accumulate_gpk_u256: get_a, get_b and the reference pattern of x)
scalar_gpk(n, pair_count, t, s_is_even, i) ==
    LET get_a(j) == IF j < 0 \/ j >= pair_count THEN 0 ELSE Bit(n, 2 * j + 1)
        get_b(j) == IF j < 0 \/ j >= pair_count THEN 0 ELSE Bit(n, 2 * j)
    IN  IF s_is_even
        THEN pair_gpk(get_b(i - t), get_b(i), get_a(i - t), get_a(i))
        ELSE pair_gpk(get_a(i - t - 1), get_b(i), get_b(i - t), get_a(i))

\* one iteration of the loop "for i in 0..pair_count" of accumulate_gpk_u128
\* and accumulate_gpk_u256: the counts and the carry chain after pair i
scalar_gpk_iteration(st, class) ==
    LET cs == ChainIteration([chain |-> st.chain, max_chain |-> st.max_chain,
                              carry |-> st.carry],
                             class = "G", class = "P")
    IN  [g_count |-> st.g_count + (IF class = "G" THEN 1 ELSE 0),
         p_count |-> st.p_count + (IF class = "P" THEN 1 ELSE 0),
         k_count |-> st.k_count + (IF class = "K" THEN 1 ELSE 0),
         chain |-> cs.chain, max_chain |-> cs.max_chain, carry |-> cs.carry]

RECURSIVE scalar_gpk_loop(_, _, _, _, _, _, _)
\* the loop "for i in lo..hi" of accumulate_gpk_u128 and accumulate_gpk_u256
scalar_gpk_loop(n, pair_count, t, s_is_even, lo, hi, st) ==
    IF lo >= hi \/ ~Evaluated(st) THEN st
    ELSE IF hi - lo = 1
         THEN scalar_gpk_iteration(st, scalar_gpk(n, pair_count, t, s_is_even, lo))
         ELSE LET mid == (lo + hi) \div 2
              IN  scalar_gpk_loop(n, pair_count, t, s_is_even, mid, hi,
                      scalar_gpk_loop(n, pair_count, t, s_is_even, lo, mid, st))

\* accumulate_gpk_u128(n, x, stats) and accumulate_gpk_u256(n, x, stats)
accumulate_gpk_scalar(n, x, stats) ==
    IF n = {} THEN stats
    ELSE LET pair_count == (BigBits(n) + 1) \div 2
             s == TrailingZeros(U64MinusOne(x))
             st == scalar_gpk_loop(n, pair_count, s \div 2, s % 2 = 0, 0, pair_count,
                                   [g_count |-> 0, p_count |-> 0, k_count |-> 0,
                                    chain |-> 0, max_chain |-> 0, carry |-> TRUE])
         IN  accumulate(stats,
                        [g_count |-> st.g_count, p_count |-> st.p_count,
                         k_count |-> st.k_count, active_pairs |-> pair_count,
                         max_carry_chain |-> MaxNat(st.chain, st.max_chain)])

\* what a call leaves: the returned Option and the statistics
Outcome(r, stats) == [ret |-> r, stats |-> stats]

\* "if let Some(ref mut stats) = gpk_stats" of the pair-scan loops
pair_scan_stats(c, pair, result, stats) ==
    IF c.collect_gpk
    THEN accumulate(stats, [g_count |-> result.g_count, p_count |-> result.p_count,
                            k_count |-> result.k_count,
                            active_pairs |-> pair.pair_count,
                            max_carry_chain |-> result.max_carry_chain])
    ELSE stats

RECURSIVE fast_pair_scan(_, _, _, _)
\* the tests of the pair-scan loops after "steps += 1"
fast_pair_scan_tests(c, next, steps_done, stats) ==
    IF is_one(next) THEN Outcome(Some(steps_done), stats)
    ELSE IF c.use_stopping_time /\ cmp(next, from_biguint(c.n)) = "Less"
    THEN Outcome(Some(steps_done), stats)
    ELSE IF exceeds_cap(next) THEN Outcome(None, stats)
    ELSE fast_pair_scan(c, next, steps_done, stats)

\* one pass of the pair-scan loops given the result of its packed step
fast_pair_scan_pass(c, pair, result, steps_done, stats) ==
    IF result.panic THEN Outcome(Panic, stats)
    ELSE fast_pair_scan_tests(c,
             from_packed(result.new_m4, result.new_m6, result.new_pair_count),
             steps_done + 1, pair_scan_stats(c, pair, result, stats))

\* the pair-scan loop "while steps < max_steps" from pair
fast_pair_scan(c, pair, steps_done, stats) ==
    IF steps_done >= c.max_steps THEN Outcome(None, stats)
    ELSE TheOnly({fast_pair_scan_pass(c, pair, result, steps_done, stats) :
                     result \in {packed_step_for(pair, c.x, c.collect_gpk)}})

\* "if let Some(ref mut stats) = gpk_stats { accumulate_gpk_..(..) }"
fast_scalar_stats(c, v, stats) ==
    IF c.collect_gpk THEN accumulate_gpk_scalar(v, c.x, stats) ELSE stats

RECURSIVE fast_phase15(_, _, _, _)
\* the tests of the Phase 1.5 loop after "steps += 1"
fast_phase15_tests(c, next, steps_done, stats) ==
    IF U256_is_one(next) THEN Outcome(Some(steps_done), stats)
    ELSE IF c.use_stopping_time /\ U256_lt_u128(next, c.n)
    THEN Outcome(Some(steps_done), stats)
    ELSE fast_phase15(c, next, steps_done, stats)

\* cur256 = xn1.shr(xn1.trailing_zeros())
fast_phase15_shift(c, xn1, steps_done, stats) ==
    fast_phase15_tests(c, U256_shr(xn1, U256_trailing_zeros(xn1)), steps_done, stats)

\* one pass of the Phase 1.5 loop given x * cur256: on None the pair scan
\* goes on from cur256
fast_phase15_pass(c, cur256, prod, steps_done, stats) ==
    IF ~prod.some
    THEN fast_pair_scan(c, from_biguint(U256_to_biguint(cur256)), steps_done, stats)
    ELSE TheOnly({fast_phase15_shift(c, xn1, steps_done + 1, stats) :
                     xn1 \in {U256_add_one(prod.v)}})

\* Phase 1.5: the U256 loop from cur256
fast_phase15(c, cur256, steps_done, stats) ==
    IF steps_done >= c.max_steps THEN Outcome(None, stats)
    ELSE TheOnly({fast_phase15_pass(c, cur256, prod, steps_done, stats2) :
                     prod \in {U256_mul_small_checked(cur256, c.x)},
                     stats2 \in {fast_scalar_stats(c, cur256, stats)}})

RECURSIVE fast_phase1(_, _, _, _)
\* the tests of the Phase 1 loop after "steps += 1"
fast_phase1_tests(c, next, steps_done, stats) ==
    IF next = BigOne THEN Outcome(Some(steps_done), stats)
    ELSE IF c.use_stopping_time /\ u128_lt(next, c.n)
    THEN Outcome(Some(steps_done), stats)
    ELSE fast_phase1(c, next, steps_done, stats)

\* current = xn1 >> xn1.trailing_zeros()
fast_phase1_shift(c, xn1, steps_done, stats) ==
    fast_phase1_tests(c, Shr(xn1, u128_trailing_zeros(xn1)), steps_done, stats)

\* Phase 1: the u128 loop from current, then Phase 1.5 or the final pair scan
fast_phase1(c, current, steps_done, stats) ==
    IF c.use_phase1 /\ steps_done < c.max_steps /\ within_overflow_limit(current, c.x)
    THEN TheOnly({fast_phase1_shift(c, xn1, steps_done + 1, stats2) :
                     xn1 \in {u128_mul_add_one(current, c.x)},
                     stats2 \in {fast_scalar_stats(c, current, stats)}})
    ELSE IF c.use_phase1 /\ steps_done < c.max_steps
    THEN fast_phase15(c, U256_from_u128(current), steps_done, stats)
    ELSE IF steps_done < c.max_steps
    THEN fast_pair_scan(c, from_biguint(current), steps_done, stats)
    ELSE Outcome(None, stats)

\* stopping_time_u64_fast(n, x, max_steps, gpk_stats, use_phase1,
\* use_stopping_time) with c = its arguments and stats = *gpk_stats
stopping_time_u64_fast(c, stats) ==
    IF c.n = BigOne THEN Outcome(Some(0), stats)
    ELSE IF c.x = {} THEN Outcome(Panic, stats)
    ELSE fast_phase1(c, c.n, 0, stats)

(***************************************************************************)
(* SpecVerify: the parallel range verifier (verify.rs)                     *)
(***************************************************************************)
\* the width of the bounds, of chunk_start, chunk_end and n
U64_BITS == 64

\* let chunk_size: u64 = 10000
chunk_size == 10000

\* "if unreported >= 100": the numbers between two reports inside a chunk
report_every == 100

\* the threads of the pool: chunks whose closure runs at the same time
NumWorkers == 2

\* in a run with a deadline the flag is raised before more than CancelBy
\* numbers have been checked
CancelBy == 3

\* the loop of a chunk whose end is u64::MAX does not end once n has
\* wrapped: it is followed until global_done reaches MaxDone
MaxDone == 10200

\* a merge that leaves the histogram of the other side out
merge_without_hist(self, other) ==
    [total_g |-> self.total_g + other.total_g,
     total_p |-> self.total_p + other.total_p,
     total_k |-> self.total_k + other.total_k,
     total_pairs |-> self.total_pairs + other.total_pairs,
     total_steps |-> self.total_steps + other.total_steps,
     carry_chain_hist |-> self.carry_chain_hist]

\* GpkStats::merge
merge(self, other) ==
    [total_g |-> self.total_g + other.total_g,
     total_p |-> self.total_p + other.total_p,
     total_k |-> self.total_k + other.total_k,
     total_pairs |-> self.total_pairs + other.total_pairs,
     total_steps |-> self.total_steps + other.total_steps,
     carry_chain_hist |->
         [i \in 0..127 |-> self.carry_chain_hist[i] + other.carry_chain_hist[i]]]

\* a u64 sum left its 64 bits
u64_overflows(v) == \E i \in v : i >= U64_BITS

\* u64: a - b for a >= b
u64_sub(a, b) ==
    Trunc(BigAdd(BigAdd(a, (0..(U64_BITS - 1)) \ b), BigOne), U64_BITS)

\* std::cmp::min
u64_min(a, b) == IF BigCmp(a, b) = "Greater" THEN b ELSE a

\* u64::MAX
U64Max == 0..(U64_BITS - 1)

Cancellable == "verify_range_parallel_u64_cancellable"

Uncancellable == "verify_range_parallel_u64"

\* the arguments of one call: verify_range_parallel_u64 always collects the
\* statistics and has no flag; use_stopping_time is what the closure hands
\* to stopping_time_u64_fast.  cancel_by tells when the flag can be raised
\* during the run: never (-1), at any time (0), or before more than
\* cancel_by numbers have been checked
VerifyArgs(fn, range, x, max_steps, collect_gpk, use_phase1, use_stopping_time,
           cancel_by) ==
    [fn |-> fn, start |-> range[1], end |-> range[2], x |-> x,
     max_steps |-> max_steps, collect_gpk |-> collect_gpk,
     use_phase1 |-> use_phase1, use_stopping_time |-> use_stopping_time,
     cancel_by |-> cancel_by]

\* ranges of a few numbers, two of them empty once start is made odd
SmallRanges ==
    {<<NatBits(0), NatBits(5)>>, <<NatBits(1), NatBits(7)>>,
     <<NatBits(3), NatBits(3)>>, <<NatBits(4), NatBits(3)>>,
     <<NatBits(2), NatBits(2)>>}

\* 10,001 odd numbers: a full chunk and a chunk of one number
BigRange == <<NatBits(1), NatBits(2 * chunk_size + 1)>>

\* the last number of the 64-bit range alone, and the last 10,000 odd numbers
TopRanges ==
    {<<U64Max, U64Max>>,
     <<u64_sub(U64Max, NatBits(2 * (chunk_size - 1))), U64Max>>}

VerifyInputs ==
    {VerifyArgs(Uncancellable, r, {0, 1}, m, TRUE, p, u, 0) :
        r \in SmallRanges, m \in {0, 2, MaxSteps}, p \in BOOLEAN, u \in BOOLEAN}
    \cup {VerifyArgs(Cancellable, r, {0, 1}, m, g, TRUE, u, d) :
        r \in SmallRanges, m \in {0, 2, MaxSteps}, g \in BOOLEAN, u \in BOOLEAN,
        d \in {0, CancelBy}}
    \cup {VerifyArgs(Uncancellable, BigRange, {0, 1}, 0, TRUE, TRUE, FALSE, 0),
          VerifyArgs(Cancellable, BigRange, {0, 1}, 2, FALSE, TRUE, TRUE, -1),
          VerifyArgs(Cancellable, BigRange, {0, 1}, MaxSteps, TRUE, TRUE, TRUE,
                     CancelBy),
          VerifyArgs(Cancellable, BigRange, {0, 2}, MaxSteps, TRUE, TRUE, FALSE,
                     CancelBy)}
    \cup {VerifyArgs(Uncancellable, r, {0, 1}, 0, TRUE, TRUE, TRUE, 0) :
             r \in TopRanges}

\* VerifyResult { .. } of the early return "if start > end"
EmptyResult ==
    [panic |-> FALSE, total_checked |-> 0, all_converged |-> TRUE,
     max_stopping_time |-> 0, max_stopping_time_number |-> BigZero,
     failures |-> <<>>, gpk_stats |-> GpkStats_new]

\* let start = if start % 2 == 0 { start + 1 } else { start }
odd_start(start) == IF 0 \in start THEN start ELSE BigAdd(start, BigOne)

\* let total_odd = (end - start) / 2 + 1
total_odd_of(start, end) == BitsNat(Shr(u64_sub(end, start), 1)) + 1

\* the verifier up to the parallel loop: the early return, total_odd,
\* num_chunks and the five globals
VerifyEntry(a, start) ==
    IF BigCmp(start, a.end) = "Greater"
    THEN /\ vcall' = [a EXCEPT !.start = start]
         /\ vret' = EmptyResult
         /\ UNCHANGED <<tasks, glob>>
    ELSE \E total_odd \in {total_odd_of(start, a.end)} :
         \E num_chunks \in {(total_odd + chunk_size - 1) \div chunk_size} :
            /\ vcall' = [fn |-> a.fn, start |-> start, end |-> a.end, x |-> a.x,
                         max_steps |-> a.max_steps, collect_gpk |-> a.collect_gpk,
                         use_phase1 |-> a.use_phase1,
                         use_stopping_time |-> a.use_stopping_time,
                         cancel_by |-> a.cancel_by,
                         total_odd |-> total_odd, num_chunks |-> num_chunks]
            /\ tasks' = [i \in 0..(num_chunks - 1) |->
                            [pc |-> "todo", batches |-> <<>>]]
            /\ glob' = [done |-> 0, max_st |-> 0, max_st_n |-> start,
                        holder |-> -1, failures |-> <<>>,
                        gpk_stats |-> GpkStats_new]
            /\ UNCHANGED vret

offVerify == <<stepvars, trajvars, guivars, unitvars>>

\* verify_range_parallel_u64(start, end, x, max_steps, use_phase1, cb) and
\* verify_range_parallel_u64_cancellable(.., collect_gpk, use_phase1, cancel,
\* cb); the caller's flag may be raised already
VerifyCall ==
    /\ vcall.fn = "none"
    /\ \E a \in VerifyInputs : \E raised \in BOOLEAN :
         /\ raised => a.fn = Cancellable
         /\ cancel' = raised
         /\ VerifyEntry(a, odd_start(a.start))
    /\ UNCHANGED <<calls, offVerify>>

\* the closure of some chunk is between its first and its last statement
InProgress(i) == tasks[i].pc \notin {"todo", "done", "panicked"}

Running == vcall.fn # "none" /\ vret = Absent

\* a run of several chunks that no deadline cuts short.  Of such a run the
\* model follows the schedules in which a report is finished before another
\* closure goes on with its loop, and the closures interleave their updates
\* after the loops freely once all loops have ended: the steps put in order
\* this way touch different variables, except for the additions to
\* global_done, which commute
Bulk == vcall.cancel_by <= 0 /\ vcall.num_chunks > 1

\* no other closure is inside a report
ReportsFinished(i) ==
    \A j \in DOMAIN tasks \ {i} : tasks[j].pc \notin {"report", "in_callback"}

\* no other closure has its loop before it or is inside it
LoopsFinished(i) ==
    \A j \in DOMAIN tasks \ {i} :
        tasks[j].pc \notin {"todo", "loop", "report", "in_callback"}

\* the locals of the closure of chunk chunk_idx before the loop
ChunkLocals(chunk_start, chunk_end) ==
    [pc |-> "loop", chunk_start |-> chunk_start, chunk_end |-> chunk_end,
     n |-> chunk_start, local_max_st |-> 0, local_max_st_n |-> chunk_start,
     local_failures |-> <<>>, unreported |-> 0, local_gpk |-> GpkStats_new,
     prev_max |-> 0, done |-> 0, final |-> FALSE, halt |-> "",
     batches |-> <<>>]

\* a poll that never sees the flag
verify_cancel_load_never == FALSE

\* cancel.load(Ordering::Relaxed) of the verifier
verify_cancel_load == vcall.fn = Cancellable /\ cancel

\* a pool thread starts the closure of chunk i: the poll on entry, chunk_start,
\* chunk_end and the locals.  chunk_start + (chunk_size - 1) * 2 can leave 64
\* bits: a build with overflow checks panics there, a build without wraps
TakeChunk(i) ==
    /\ Running
    /\ tasks[i].pc = "todo"
    /\ Cardinality({j \in DOMAIN tasks : InProgress(j)}) < NumWorkers
    /\ IF verify_cancel_load
       THEN tasks' = [tasks EXCEPT ![i] = [pc |-> "done", batches |-> <<>>]]
       ELSE \E chunk_start \in
                {BigAdd(vcall.start, NatBits(i * chunk_size * 2))} :
            \E raw_end \in {BigAdd(chunk_start, NatBits((chunk_size - 1) * 2))} :
            \E overflow_checks \in
                (IF u64_overflows(raw_end) THEN BOOLEAN ELSE {FALSE}) :
               tasks' = [tasks EXCEPT ![i] =
                   IF overflow_checks
                   THEN [pc |-> "panicked", batches |-> <<>>]
                   ELSE ChunkLocals(chunk_start,
                            u64_min(Trunc(raw_end, U64_BITS), vcall.end))]
    /\ UNCHANGED <<vcall, glob, vret, cancel, calls, offVerify>>

\* the locals after the match on the stopping time out of n and the two
\* increments; halt tells why the loop stops here, if it does
verify_number(t, out) ==
    IF out.ret.panic THEN [t EXCEPT !.halt = "panic"]
    ELSE LET next_n == BigAdd(t.n, {1})
             better == out.ret.some /\ out.ret.v > t.local_max_st
             batch == t.batches[Len(t.batches)]
         IN  [t EXCEPT
                !.local_max_st = IF better THEN out.ret.v ELSE @,
                !.local_max_st_n = IF better THEN t.n ELSE @,
                !.local_failures = IF out.ret.some THEN @ ELSE Append(@, t.n),
                !.local_gpk = out.stats,
                !.unreported = @ + 1,
                !.n = Trunc(next_n, U64_BITS),
                !.halt = IF u64_overflows(next_n) THEN "overflow" ELSE "",
                !.batches = [@ EXCEPT ![Len(@)] =
                                [from |-> batch.from, count |-> batch.count + 1]]]

\* one pass of "while n <= chunk_end { .. }" up to the test of unreported
verify_one(c, t) ==
    IF BigCmp(t.n, t.chunk_end) = "Greater" THEN [t EXCEPT !.halt = "ended"]
    ELSE TheOnly({verify_number(t, out) : out \in
             {stopping_time_u64_fast(
                 [n |-> t.n, x |-> c.x, max_steps |-> c.max_steps,
                  use_phase1 |-> c.use_phase1,
                  use_stopping_time |-> c.use_stopping_time,
                  collect_gpk |-> c.collect_gpk], t.local_gpk)}})

RECURSIVE verify_loop(_, _, _)
\* at most k passes of the loop from the locals t, none after one that halts
verify_loop(c, k, t) ==
    IF t.halt # "" \/ k <= 0 THEN t
    ELSE IF k = 1 THEN verify_one(c, t)
    ELSE verify_loop(c, k - (k \div 2), verify_loop(c, k \div 2, t))

\* the numbers checked so far by all closures
RECURSIVE CheckedIn(_)
CheckedIn(batches) ==
    IF batches = <<>> THEN 0
    ELSE batches[1].count + CheckedIn(Tail(batches))

RECURSIVE CheckedUpTo(_)
CheckedUpTo(i) ==
    IF i < 0 THEN 0 ELSE CheckedIn(tasks[i].batches) + CheckedUpTo(i - 1)

Checked == CheckedUpTo(vcall.num_chunks - 1)

\* how many passes the next step of the loop takes: none once the flag is
\* seen raised, one number at a time in a run with a deadline, otherwise up
\* to the next report
BatchLengths(t) ==
    IF verify_cancel_load THEN {0}
    ELSE IF vcall.cancel_by > 0
    THEN (IF Checked < vcall.cancel_by THEN {1} ELSE {})
    ELSE {report_every - t.unreported}

\* let done = global_done.fetch_add(unreported, Relaxed) + unreported
fetch_add_done(t, final) ==
    [t EXCEPT !.pc = "report", !.done = glob.done + t.unreported,
              !.final = final, !.halt = ""]

\* the closure after a stretch of its loop: at a report inside the chunk, at
\* the report of the rest after the loop, past it with nothing to report, or
\* still in the loop
AfterBatch(i, t) ==
    IF t.halt = "panic" THEN tasks' = [tasks EXCEPT ![i] =
                                 [pc |-> "panicked", batches |-> t.batches]]
                             /\ UNCHANGED glob
    ELSE IF t.unreported >= report_every
    THEN /\ tasks' = [tasks EXCEPT ![i] = fetch_add_done(t, FALSE)]
         /\ glob' = [glob EXCEPT !.done = @ + t.unreported]
    ELSE IF t.halt \in {"ended", "break"}
    THEN IF t.unreported > 0
         THEN /\ tasks' = [tasks EXCEPT ![i] = fetch_add_done(t, TRUE)]
              /\ glob' = [glob EXCEPT !.done = @ + t.unreported]
         ELSE /\ tasks' = [tasks EXCEPT ![i] =
                              [t EXCEPT !.pc = "max_load", !.halt = ""]]
              /\ UNCHANGED glob
    ELSE /\ tasks' = [tasks EXCEPT ![i] = [t EXCEPT !.halt = ""]]
         /\ UNCHANGED glob

\* the closure of chunk i runs its loop: up to the next report, to the end of
\* the chunk, or to the poll that sees the flag raised.  "n += 2" can leave
\* 64 bits: a build with overflow checks panics there, a build without wraps
RunBatch(i) ==
    /\ Running
    /\ tasks[i].pc = "loop"
    /\ glob.done < MaxDone
    /\ Bulk => ReportsFinished(i)
    /\ \E len \in BatchLengths(tasks[i]) :
       \E t \in {IF len = 0 THEN [tasks[i] EXCEPT !.halt = "break"]
                 ELSE verify_loop(vcall, len,
                          [tasks[i] EXCEPT !.batches =
                              Append(@, [from |-> tasks[i].n, count |-> 0])])} :
       \E overflow_checks \in
              (IF t.halt = "overflow" THEN BOOLEAN ELSE {FALSE}) :
          AfterBatch(i, IF overflow_checks THEN [t EXCEPT !.halt = "panic"]
                        ELSE IF t.halt = "overflow" THEN [t EXCEPT !.halt = ""]
                        ELSE t)
    /\ UNCHANGED <<vcall, vret, cancel, calls, offVerify>>

\* progress_callback(done, total_odd) is entered, with done and total_odd
\* as the closure holds them
CallbackEnter(i) ==
    /\ Running
    /\ tasks[i].pc = "report"
    /\ tasks' = [tasks EXCEPT ![i].pc = "in_callback"]
    /\ UNCHANGED <<vcall, glob, vret, cancel, calls, offVerify>>

\* progress_callback returns and done leaves its scope: "unreported = 0"
\* inside the loop, the update of the maximum after it
CallbackExit(i) ==
    /\ Running
    /\ tasks[i].pc = "in_callback"
    /\ tasks' = [tasks EXCEPT ![i] =
                    IF tasks[i].final
                    THEN [@ EXCEPT !.pc = "max_load", !.done = 0]
                    ELSE [@ EXCEPT !.pc = "loop", !.done = 0, !.unreported = 0]]
    /\ UNCHANGED <<vcall, glob, vret, cancel, calls, offVerify>>

\* let prev_max = global_max_st.load(Relaxed); if local_max_st > prev_max
MaxLoad(i) ==
    /\ Running
    /\ tasks[i].pc = "max_load"
    /\ Bulk => LoopsFinished(i)
    /\ tasks' = [tasks EXCEPT ![i] =
                    [@ EXCEPT !.prev_max = glob.max_st,
                              !.pc = IF tasks[i].local_max_st > glob.max_st
                                     THEN "fetch_max" ELSE "failures"]]
    /\ UNCHANGED <<vcall, glob, vret, cancel, calls, offVerify>>

\* AtomicU64::fetch_max: the value stored afterwards
fetch_max(stored, v) == MaxNat(stored, v)

\* global_max_st.fetch_max(local_max_st, Relaxed)
MaxFetch(i) ==
    /\ Running
    /\ tasks[i].pc = "fetch_max"
    /\ glob' = [glob EXCEPT !.max_st = fetch_max(@, tasks[i].local_max_st)]
    /\ tasks' = [tasks EXCEPT ![i].pc = "lock"]
    /\ UNCHANGED <<vcall, vret, cancel, calls, offVerify>>

\* let mut guard = global_max_st_n.lock().unwrap()
MaxLock(i) ==
    /\ Running
    /\ tasks[i].pc = "lock"
    /\ glob.holder = -1
    /\ glob' = [glob EXCEPT !.holder = i]
    /\ tasks' = [tasks EXCEPT ![i].pc = "check"]
    /\ UNCHANGED <<vcall, vret, cancel, calls, offVerify>>

\* a test that lets every closure holding the mutex write
argmax_test_always(local_max_st, stored) == TRUE

\* if local_max_st >= global_max_st.load(Relaxed)
argmax_test(local_max_st, stored) == local_max_st >= stored

\* the test under the mutex; the guard is dropped at once when it fails
MaxCheck(i) ==
    /\ Running
    /\ tasks[i].pc = "check"
    /\ IF argmax_test(tasks[i].local_max_st, glob.max_st)
       THEN /\ tasks' = [tasks EXCEPT ![i].pc = "write"]
            /\ UNCHANGED glob
       ELSE /\ tasks' = [tasks EXCEPT ![i].pc = "failures"]
            /\ glob' = [glob EXCEPT !.holder = -1]
    /\ UNCHANGED <<vcall, vret, cancel, calls, offVerify>>

\* *guard = local_max_st_n, and the guard is dropped
MaxWrite(i) ==
    /\ Running
    /\ tasks[i].pc = "write"
    /\ glob' = [glob EXCEPT !.max_st_n = tasks[i].local_max_st_n,
                            !.holder = -1]
    /\ tasks' = [tasks EXCEPT ![i].pc = "failures"]
    /\ UNCHANGED <<vcall, vret, cancel, calls, offVerify>>

\* if !local_failures.is_empty() { global_failures.lock().extend(..) }
ExtendFailures(i) ==
    /\ Running
    /\ tasks[i].pc = "failures"
    /\ glob' = [glob EXCEPT !.failures = @ \o tasks[i].local_failures]
    /\ tasks' = [tasks EXCEPT ![i].pc = "merge"]
    /\ UNCHANGED <<vcall, vret, cancel, calls, offVerify>>

\* global_gpk_stats.lock().unwrap().merge(&local_gpk): the closure ends
MergeStats(i) ==
    /\ Running
    /\ tasks[i].pc = "merge"
    /\ glob' = [glob EXCEPT !.gpk_stats = merge(@, tasks[i].local_gpk)]
    /\ tasks' = [tasks EXCEPT ![i].pc = "done"]
    /\ UNCHANGED <<vcall, vret, cancel, calls, offVerify>>

\* VerifyResult { .. } from the globals once every closure has ended
VerifyReturn ==
    /\ Running
    /\ \A i \in DOMAIN tasks : tasks[i].pc = "done"
    /\ vret' = [panic |-> FALSE, total_checked |-> glob.done,
                all_converged |-> glob.failures = <<>>,
                max_stopping_time |-> glob.max_st,
                max_stopping_time_number |-> glob.max_st_n,
                failures |-> glob.failures, gpk_stats |-> glob.gpk_stats]
    /\ UNCHANGED <<vcall, tasks, glob, cancel, calls, offVerify>>

\* a closure panicked: for_each resumes the panic in the caller once no
\* closure runs
VerifyPanic ==
    /\ Running
    /\ \E i \in DOMAIN tasks : tasks[i].pc = "panicked"
    /\ \A i \in DOMAIN tasks : ~InProgress(i)
    /\ vret' = Panic
    /\ UNCHANGED <<vcall, tasks, glob, cancel, calls, offVerify>>

\* another thread stores true into the flag of a cancellable run
RaiseVerifyCancel ==
    /\ Running
    /\ vcall.fn = Cancellable
    /\ vcall.cancel_by >= 0
    /\ ~cancel
    /\ cancel' = TRUE
    /\ UNCHANGED <<vcall, tasks, glob, vret, calls, offVerify>>

NextVerify ==
    \/ VerifyCall
    \/ \E i \in DOMAIN tasks : TakeChunk(i)
    \/ \E i \in DOMAIN tasks : RunBatch(i)
    \/ \E i \in DOMAIN tasks : CallbackEnter(i)
    \/ \E i \in DOMAIN tasks : CallbackExit(i)
    \/ \E i \in DOMAIN tasks : MaxLoad(i)
    \/ \E i \in DOMAIN tasks : MaxFetch(i)
    \/ \E i \in DOMAIN tasks : MaxLock(i)
    \/ \E i \in DOMAIN tasks : MaxCheck(i)
    \/ \E i \in DOMAIN tasks : MaxWrite(i)
    \/ \E i \in DOMAIN tasks : ExtendFailures(i)
    \/ \E i \in DOMAIN tasks : MergeStats(i)
    \/ VerifyReturn
    \/ VerifyPanic
    \/ RaiseVerifyCancel

SpecVerify == Init /\ [][NextVerify]_vars

(***************************************************************************)
(* Properties of the single step, the conversions and the comparison       *)
(***************************************************************************)
\* x is a valid multiplier: x >= 3 and x - 1 a power of two, in 64 bits
ValidMultiplier(x) == \E e \in 1..(WORD - 1) : x = {0, e}

\* the bit length of an integer
BitLen(v) == IF v = {} THEN 0 ELSE SetMax(v) + 1

\* the representation invariant of a pair-number
Canonical(p) ==
    LET k == p.pair_count
        words == DivCeil(k, WORD)
    IN  /\ k >= 1
        /\ Len(p.m4_words) = words
        /\ Len(p.m6_words) = words
        /\ \A w \in 1..words :
             p.m4_words[w] \cup p.m6_words[w] \subseteq 0..(WORD - 1)
        /\ k > 1 => (k - 1) % WORD \in p.m4_words[words] \cup p.m6_words[words]
        /\ k % WORD # 0 =>
             \A b \in p.m4_words[words] \cup p.m6_words[words] : b < k % WORD

\* the PairNumber a packed step returns
PackedNext(pk) == from_packed(pk.new_m4, pk.new_m6, pk.new_pair_count)

\* C1: for odd n and valid x the sequential step (generic, and the
\* specialised ones for x = 3 and x = 5) returns d = the number of trailing
\* zero bits of x*n+1 and next = (x*n+1) >> d.
C1_SequentialStepArithmetic ==
    (/\ last.op \in {"seq", "both"}
     /\ ValidMultiplier(last.x)
     /\ BigOdd(val)
     /\ pn = from_biguint(val))
    => /\ ~last.seq.panic
       /\ last.seq.d = BigTrailingZeros(BigAdd(BigMul(val, last.x), BigOne))
       /\ to_biguint(last.seq.next)
            = BigShr(BigAdd(BigMul(val, last.x), BigOne), last.seq.d)

\* the specialised 3n+1 step on 0101...01 (65 pairs): 3n+1 = 4^65, d = 130
Witness_C1 ==
    /\ last.op = "seq"
    /\ last.fn = "3n1"
    /\ val = {2 * i : i \in 0..WORD}
    /\ last.seq.d = 2 * WORD + 2
    /\ is_one(last.seq.next)

\* C2: for odd n and valid x the packed step and the sequential step return
\* the same next, d, exchanged, g_count, p_count, k_count and
\* max_carry_chain.
C2_PackedEqualsSequential ==
    (/\ last.op = "both"
     /\ ValidMultiplier(last.x)
     /\ BigOdd(val)
     /\ pn = from_biguint(val))
    => /\ ~last.seq.panic
       /\ ~last.pk.panic
       /\ PackedNext(last.pk) = last.seq.next
       /\ last.pk.d = last.seq.d
       /\ last.pk.exchanged = last.seq.exchanged
       /\ last.pk.g_count = last.seq.gpk.g_count
       /\ last.pk.p_count = last.seq.gpk.p_count
       /\ last.pk.k_count = last.seq.gpk.k_count
       /\ last.pk.max_carry_chain = last.seq.gpk.max_carry_chain

\* both steps on 2^130 - 1 (65 pairs, two words) with x = 3: the carry runs
\* through every pair, across the word boundary
Witness_C2 ==
    /\ last.op = "both"
    /\ val = 0..(2 * WORD + 1)
    /\ last.x = {0, 1}
    /\ last.fn = "generic"
    /\ last.pk.max_carry_chain = WORD + 1
    /\ last.seq.gpk.max_carry_chain = WORD + 1

\* C3: every PairNumber returned by from_biguint, from_bits_lsb and as the
\* next value of a sequential or packed step is canonical, also after a
\* sequence of steps.
C3_Canonical ==
    /\ pn # Absent => Canonical(pn)
    /\ (last.op \in {"seq", "both"} /\ ~last.seq.panic) => Canonical(last.seq.next)
    /\ (last.op = "both" /\ ~last.pk.panic) => Canonical(PackedNext(last.pk))

\* a step made on the output of a step, from two words down to one
Witness_C3 ==
    /\ depth = MaxChain
    /\ last.op = "both"
    /\ pn.pair_count > WORD
    /\ ~last.pk.panic
    /\ PackedNext(last.pk).pair_count <= WORD
    /\ PackedNext(last.pk).pair_count > 1

\* C4: to_biguint(from_biguint(n)) = n, the pair count of from_biguint(n) is
\* max(1, ceil(bitlen(n)/2)), and zero is the single pair (0,0).
C4_BiguintRoundTrip ==
    /\ (last.op = "to_biguint" /\ pn = from_biguint(val)) => last.back = val
    /\ last.op = "from_biguint" =>
         /\ pn.pair_count = MaxNat(1, DivCeil(BitLen(val), 2))
         /\ val = {} => (pn.m4_words = <<{}>> /\ pn.m6_words = <<{}>>)

\* the round trip of 2^129 - 1: 65 pairs, the top pair (0,1) in a second word
Witness_C4 ==
    /\ last.op = "to_biguint"
    /\ val = 0..(2 * WORD)
    /\ pn = from_biguint(val)
    /\ pn.pair_count = WORD + 1
    /\ last.back = val

\* C5: cmp on from_biguint(a) and from_biguint(b) is the comparison of a and
\* b as integers, and the pair-numbers are equal exactly when a = b.
C5_CmpIsIntegerOrder ==
    last.op = "cmp" =>
        /\ last.ord = (IF val = last.other THEN "Equal"
                       ELSE IF SetMax(Xor(val, last.other)) \in val
                            THEN "Greater" ELSE "Less")
        /\ (pn = from_biguint(last.other)) <=> (val = last.other)

\* 2^128 + 1 against 2^129 - 1: equal pair counts, equal m6 streams in the
\* top word, decided by the m4 stream
Witness_C5 ==
    /\ last.op = "cmp"
    /\ val = {0, 2 * WORD}
    /\ last.other = 0..(2 * WORD)
    /\ last.ord = "Less"

(***************************************************************************)
(* Claims about the trajectory functions (SpecTraj)                        *)
(***************************************************************************)
StoppingFns == {"stopping_time", "stopping_time_with_gpk", "stopping_time_u64_fast"}

PairScanFns == {"stopping_time", "stopping_time_with_gpk"}

\* the first k iterates of the running call's start, in unbounded integers
Iterates(k) == RefIterates(call.n, call.x, k)

\* the stopping predicate of the running call on the integer v
Stops(v) == v = BigOne \/ (call.use_stopping_time /\ BigCmp(v, call.n) = "Less")

\* none of the iterates its stops the run
NoStopIn(its) == \A j \in 1..Len(its) : ~Stops(its[j])

\* none of the iterates its is 1
NoOneIn(its) == \A j \in 1..Len(its) : its[j] # BigOne

\* none of the iterates its has more than MAX_PAIR_COUNT pairs
NoCapIn(its) == \A j \in 1..Len(its) : PairsOf(its[j]) <= MAX_PAIR_COUNT

\* C6: for odd 64-bit n and valid x, stopping_time_u64_fast returns, with
\* use_phase1 = true as with use_phase1 = false, the result of the reference
\* iteration in unbounded integers with the same stopping predicate, step
\* budget and divergence cap (a value that does not depend on use_phase1,
\* so both settings return the same Option)
C6_FastEqualsReference ==
    (pc = "done" /\ call.fn = "stopping_time_u64_fast"
        /\ BigOdd(call.n) /\ ValidMultiplier(call.x))
    => ret = RefStop(call.n, call.x, call.max_steps, call.use_stopping_time)

\* 3 with x = 2^63 + 1 and use_phase1: the run leaves the 128-bit and
\* the 256-bit phase and takes its last step in the pair scan
Witness_C6 ==
    /\ pc = "done"
    /\ call.fn = "stopping_time_u64_fast"
    /\ call.use_phase1
    /\ call.n = {0, 1}
    /\ call.x = {0, WORD - 1}
    /\ nxt.phase = "pair_scan"
    /\ steps = MaxSteps
    /\ ret = None

\* C7: Some(s) is the least number of steps after which the iterate is 1
\* or (with use_stopping_time) strictly below n; s = 0 exactly for n = 1;
\* with use_stopping_time = false only 1 stops the run
C7_StoppingTimeIsLeast ==
    (pc = "done" /\ call.fn \in StoppingFns /\ ValidMultiplier(call.x)
        /\ ~ret.panic /\ ret.some)
    => /\ (ret.v = 0) <=> (call.n = BigOne)
       /\ \A its \in {Iterates(ret.v)} :
            /\ ret.v > 0 => Stops(its[ret.v])
            /\ NoStopIn(SubSeq(its, 1, ret.v - 1))

\* 7 with x = 3 and use_stopping_time = false: 7, 11, 17, 13, 5, 1; the
\* iterate 5 < 7 does not stop the run
Witness_C7 ==
    /\ pc = "done"
    /\ call.fn = "stopping_time_with_gpk"
    /\ ~call.use_stopping_time
    /\ call.n = {0, 1, 2}
    /\ call.x = {0, 1}
    /\ ret = Some(5)

\* the budget part of C8 for the stopping-time functions and the tracer,
\* given that no iterate within the budget exceeds the cap (cap = TRUE) or
\* whatever the pair counts are (cap = FALSE)
BudgetExhaustion(cap) ==
    /\ (pc = "done" /\ call.fn \in PairScanFns /\ ValidMultiplier(call.x)
          /\ call.n # BigOne)
       => \A its \in {Iterates(call.max_steps)} :
            (NoStopIn(its) /\ (cap => NoCapIn(its)))
            => (ret = None /\ steps = call.max_steps)
    /\ (pc = "done" /\ call.fn = "trace_trajectory" /\ ValidMultiplier(call.x)
          /\ call.n # BigOne)
       => \A its \in {Iterates(call.max_steps)} :
            (NoOneIn(its) /\ (cap => NoCapIn(its)))
            => (/\ ~ret.panic
                /\ ret.result.total_steps = call.max_steps
                /\ ~ret.result.reached_one
                /\ steps = call.max_steps)
    /\ (call.fn \in PairScanFns \cup {"trace_trajectory"} /\ call.max_steps = 0)
       => (steps = 0 /\ nxt.phase = "none")

C9_DivergenceCap ==
    /\ (call.fn \in StoppingFns /\ nxt.phase = "pair_scan"
          /\ nxt.v.pair_count > MAX_PAIR_COUNT /\ ~is_one(nxt.v)
          /\ ~(call.use_stopping_time /\ cmp(nxt.v, initial_pn) = "Less"))
       => (pc = "done" /\ ret = None)
    /\ (call.fn = "trace_trajectory" /\ nxt.phase = "trace"
          /\ nxt.v.pair_count > MAX_PAIR_COUNT)
       => (/\ pc = "done"
           /\ ~ret.panic
           /\ ~ret.result.reached_one
           /\ ret.result.total_steps = steps
           /\ Len(ret.result.steps) = steps
           /\ ret.result.pair_steps[steps + 1].pair_count = nxt.v.pair_count
           /\ ret.result.pair_steps[steps + 1].m4_words = nxt.v.m4_words)

\* 2^19998 - 1 with x = 3: the fourth iterate has 10,001 pairs, and the
\* run returns None with two steps of its budget left
Witness_C9 ==
    /\ pc = "done"
    /\ call.fn = "stopping_time_with_gpk"
    /\ call.n = 0..(2 * MAX_PAIR_COUNT - 2)
    /\ call.max_steps = MaxSteps
    /\ steps = 2
    /\ nxt.v.pair_count = MAX_PAIR_COUNT + 1
    /\ ret = None

\* C10: precondition violations fail fast at the single-step entry points: a
\* generic step (sequential or packed) with an invalid x aborts, and a step
\* with an even n aborts rather than returning a StepResult.
C10_PreconditionsFailFast ==
    /\ (last.op \in {"seq", "both"} /\ last.fn = "generic" /\ ~ValidMultiplier(last.x))
         => last.seq.panic
    /\ (last.op = "both" /\ last.fn = "generic" /\ ~ValidMultiplier(last.x))
         => last.pk.panic
    /\ (last.op \in {"seq", "both"} /\ ~BigOdd(val))
         => last.seq.panic

\* C19: fastener view. to_bits_lsb(p) has length 2k with m6[i] at position 2i
\* and m4[i] at position 2i+1 (27 gives [1,1,0,1,1,0]), from_bits_lsb undoes
\* it, and from_bits_lsb of any bit list (empty, odd length, trailing zeros)
\* is the canonical pair-number of the integer the list spells LSB first.
C19_FastenerView ==
    /\ last.op = "to_bits_lsb"
         => /\ Len(last.bits) = 2 * pn.pair_count
            /\ \A i \in 0..(pn.pair_count - 1) :
                  /\ last.bits[2 * i + 1] = Bit(pn.m6_words[(i \div WORD) + 1], i % WORD)
                  /\ last.bits[2 * i + 2] = Bit(pn.m4_words[(i \div WORD) + 1], i % WORD)
            /\ last.pn2 = pn
            /\ (val = NatBits(27) => last.bits = <<1, 1, 0, 1, 1, 0>>)
    /\ last.op = "from_bits_lsb"
         => /\ Canonical(pn)
            /\ to_biguint(pn) = BitsValue(last.bits)
            /\ pn = from_biguint(BitsValue(last.bits))

\* the fastener of 27 and its way back
Witness_C19 ==
    /\ last.op = "to_bits_lsb"
    /\ val = NatBits(27)
    /\ last.bits = <<1, 1, 0, 1, 1, 0>>
    /\ last.pn2 = pn

\* the integer held by the raw snapshot of a sequential step
RawValue(r) ==
    {2 * i + 1 : i \in {j \in 0..(r.raw_pair_count - 1) :
                          Bit(r.raw_m4[(j \div WORD) + 1], j % WORD) = 1}}
      \cup {2 * i : i \in {j \in 0..(r.raw_pair_count - 1) :
                              Bit(r.raw_m6[(j \div WORD) + 1], j % WORD) = 1}}

\* the scan loop of collatz_step(pn, x) at its end
ScanEnd(n, x) ==
    scan_loop("generic", n, RefPattern_new(x), 0,
              n.pair_count + ((RefPattern_new(x).s + 1) \div 2) + 1, ScanInit)

\* C20: the raw snapshot of collatz_step is exactly x*n+1 for every canonical
\* n and valid x: the carry out of the last scanned pair is 0 and an early
\* exit leaves out only pairs that are (0,0).
C20_RawSnapshot ==
    (/\ last.op \in {"seq", "both"}
     /\ last.fn = "generic"
     /\ ValidMultiplier(last.x)
     /\ pn = from_biguint(val))
    => /\ ~last.seq.panic
       /\ RawValue(last.seq) = BigAdd(BigMul(val, last.x), BigOne)
       /\ ScanEnd(pn, last.x).c = 0
       /\ ScanEnd(pn, last.x).actual_pairs = last.seq.raw_pair_count

\* x = 2^6 + 1 on 2^130 - 1: the scan runs past the input's 65 pairs, over
\* the pairs the reference pattern still reaches
Witness_C20 ==
    /\ last.op = "seq"
    /\ last.fn = "generic"
    /\ last.x = {0, MaxS}
    /\ val = 0..(2 * WORD + 1)
    /\ last.seq.raw_pair_count > pn.pair_count + 2

TraceFns == {"trace_trajectory", "trace_trajectory_cancellable"}

\* n_i of the trace under construction, n_0 being the start
StepValue(i) == IF i = 0 THEN trace.start ELSE trace.steps[i].n

RECURSIVE SumOfD(_)
\* the sum of the d of recorded steps
SumOfD(recorded) ==
    IF recorded = <<>> THEN 0 ELSE recorded[1].d + SumOfD(Tail(recorded))

\* C15: trace_trajectory_cancellable polls the flag before each step: once a
\* poll sees it raised no further step runs and the partial result is
\* returned (total_steps = 0 when it is raised at the call); in every
\* returned result steps, gpk_per_step and total_steps agree, pair_steps has
\* total_steps + 1 entries starting with the start, gpk_stats.total_steps =
\* total_steps, and the callback ran total_steps times with the step
\* indices 1, 2, ..., total_steps in order.
C15_Results ==
    (call.fn = "trace_trajectory_cancellable" /\ pc = "done" /\ ~ret.panic)
    => /\ Len(ret.result.steps) = ret.result.total_steps
       /\ Len(ret.result.gpk_per_step) = ret.result.total_steps
       /\ Len(ret.result.pair_steps) = ret.result.total_steps + 1
       /\ ret.result.pair_steps[1].pair_count = from_biguint(call.n).pair_count
       /\ ret.result.pair_steps[1].m4_words = from_biguint(call.n).m4_words
       /\ ret.result.pair_steps[1].m6_words = from_biguint(call.n).m6_words
       /\ ret.result.gpk_stats.total_steps = ret.result.total_steps
       /\ Len(calls) = ret.result.total_steps
       /\ \A i \in 1..Len(calls) : calls[i].step = i
       /\ (call.raised_at_call => ret.result.total_steps = 0)

C15_NoStepAfterRaisedPoll ==
    (call.fn = "trace_trajectory_cancellable" /\ pc = "cancel_loop" /\ cancel)
    => /\ trace' = trace
       /\ calls' = calls
       /\ pc' = "done"
       /\ ret' = [panic |-> FALSE, result |-> trace]

C15_CancellableTracer == []C15_Results /\ [][C15_NoStepAfterRaisedPoll]_vars

\* a run cancelled between two steps returns its partial result
Witness_C15 ==
    /\ call.fn = "trace_trajectory_cancellable"
    /\ pc = "done"
    /\ cancel
    /\ ~call.raised_at_call
    /\ ~ret.panic
    /\ ret.result.total_steps > 0
    /\ ret.result.total_steps < call.max_steps
    /\ ~ret.result.reached_one
    /\ Len(calls) = ret.result.total_steps

\* C18: in every trace the recorded steps satisfy n_i * 2^(d_i) =
\* x * n_(i-1) + 1 with n_0 = start and n_i odd, max_value is the maximum of
\* start and all n_i, reached_one holds iff start = 1 or the last n_i is 1;
\* start 27 with x = 3 and max_steps = 200 reaches 1 in 41 steps with sum of
\* d = 70.
C18_TraceRecords ==
    (call.fn \in TraceFns)
    => /\ \A i \in 1..Len(trace.steps) :
             /\ BigShl(trace.steps[i].n, trace.steps[i].d)
                   = BigAdd(BigMul(StepValue(i - 1), call.x), BigOne)
             /\ BigOdd(trace.steps[i].n)
       /\ \E i \in 0..Len(trace.steps) : trace.max_value = StepValue(i)
       /\ \A i \in 0..Len(trace.steps) :
             BigCmp(StepValue(i), trace.max_value) # "Greater"
       /\ trace.reached_one
             <=> (trace.start = BigOne
                  \/ (trace.steps # <<>> /\ StepValue(Len(trace.steps)) = BigOne))
       /\ Len(trace.steps) = trace.total_steps
       /\ (/\ pc = "done"
           /\ call.fn = "trace_trajectory"
           /\ call.n = NatBits(PaperStart)
           /\ call.x = {0, 1}
           /\ call.max_steps = PaperBudget)
          => /\ ret.result.reached_one
             /\ ret.result.total_steps = 41
             /\ SumOfD(ret.result.steps) = 70

\* the trace of 27 under 3n+1 has ended
Witness_C18 ==
    /\ pc = "done"
    /\ call.fn = "trace_trajectory"
    /\ call.n = NatBits(PaperStart)
    /\ call.max_steps = PaperBudget
    /\ ret.result.total_steps = 41
    /\ ret.result.max_value = NatBits(3077)


(***************************************************************************)
(* Claims about the parallel verifier (SpecVerify)                         *)
(***************************************************************************)
\* what one sequential pass has gathered before its first number
SeqStart ==
    [count |-> 0, max_st |-> 0, converged |-> {}, failures |-> {},
     stats |-> GpkStats_new, panic |-> FALSE]

\* the pass after the number n, whose stopping time is out
SeqNumber(n, acc, out) ==
    [count |-> acc.count + 1,
     max_st |-> IF ~out.ret.panic /\ out.ret.some
                THEN MaxNat(acc.max_st, out.ret.v) ELSE acc.max_st,
     converged |-> IF ~out.ret.panic /\ out.ret.some
                   THEN acc.converged \cup {out.ret.v} ELSE acc.converged,
     failures |-> IF ~out.ret.panic /\ ~out.ret.some
                  THEN acc.failures \cup {n} ELSE acc.failures,
     stats |-> out.stats,
     panic |-> acc.panic \/ out.ret.panic]

\* the stopping time of n and the statistics after it, as the closures of
\* the run c ask for it
StoppingTimeOf(c, n, stats) ==
    stopping_time_u64_fast([n |-> n, x |-> c.x, max_steps |-> c.max_steps,
                            use_phase1 |-> c.use_phase1,
                            use_stopping_time |-> c.use_stopping_time,
                            collect_gpk |-> c.collect_gpk], stats)

RECURSIVE SeqPass(_, _, _, _)
\* one sequential pass over from, from + 2, .. (count numbers) after acc
SeqPass(c, from, count, acc) ==
    IF ~Evaluated(acc) \/ count <= 0 THEN acc
    ELSE IF count = 1
    THEN TheOnly({SeqNumber(from, acc, out) :
                     out \in {StoppingTimeOf(c, from, acc.stats)}})
    ELSE SeqPass(c, BigAdd(from, NatBits(2 * (count \div 2))),
                 count - (count \div 2), SeqPass(c, from, count \div 2, acc))

RECURSIVE SeqBatches(_, _, _)
\* one sequential pass over the numbers of a list of stretches
SeqBatches(c, batches, acc) ==
    IF batches = <<>> THEN acc
    ELSE SeqBatches(c, Tail(batches),
                    SeqPass(c, batches[1].from, batches[1].count, acc))

RECURSIVE Consecutive(_, _)
\* the stretches follow each other from the number from, two apart
Consecutive(batches, from) ==
    \/ batches = <<>>
    \/ /\ batches[1].from = from
       /\ Consecutive(Tail(batches),
                      BigAdd(from, NatBits(2 * batches[1].count)))

\* the verifier has returned, or its panic has reached the caller
Returned == vcall.fn # "none" /\ vret # Absent

\* the odd numbers of [start', end]: (end - start') / 2 + 1 of them, none
\* when start' > end
OddCount ==
    IF BigCmp(vcall.start, vcall.end) = "Greater" THEN 0
    ELSE BitsNat(Shr(u64_sub(vcall.end, vcall.start), 1)) + 1

\* the closure of chunk i has checked the numbers of its chunk, the i-th
\* 10,000 odd numbers from start' up to end, once each and no other
ChunkCovered(i) ==
    /\ Consecutive(tasks[i].batches,
                   BigAdd(vcall.start, NatBits(2 * i * chunk_size)))
    /\ CheckedIn(tasks[i].batches)
           = MinNat(chunk_size, OddCount - i * chunk_size)

\* the elements of a sequence
Range(seq) == {seq[k] : k \in DOMAIN seq}

\* C11: an uncancelled run of the parallel verifier over start <= end returns
\* a result; its closures have checked every odd number of [start', end]
\* exactly once, chunk by chunk; total_checked = (end - start') / 2 + 1;
\* failures holds exactly the numbers whose stopping time is None, once
\* each; all_converged holds iff failures is empty
C11_EveryOddOnce ==
    (Returned /\ ~cancel) =>
        /\ ~vret.panic
        /\ vret.total_checked = OddCount
        /\ \A i \in DOMAIN tasks : ChunkCovered(i)
        /\ (OddCount - 1) \div chunk_size + 1 = Cardinality(DOMAIN tasks)
               \/ OddCount = 0
        /\ \E pass \in {SeqPass(vcall, vcall.start, OddCount, SeqStart)} :
               /\ Range(vret.failures) = pass.failures
               /\ Len(vret.failures) = Cardinality(pass.failures)
        /\ vret.all_converged <=> (vret.failures = <<>>)

\* the same away from the top of the 64-bit range, where neither
\* chunk_start + (chunk_size - 1) * 2 nor n + 2 leaves 64 bits
C11_BelowTheTop ==
    (Returned /\ ~u64_overflows(BigAdd(vcall.end, NatBits(2 * chunk_size))))
        => C11_EveryOddOnce

\* a run over two chunks has returned without its flag raised
Witness_C11 ==
    /\ Returned /\ ~cancel /\ ~vret.panic
    /\ vcall.num_chunks = 2
    /\ vret.total_checked = chunk_size + 1
    /\ vret.failures # <<>>

\* the stretches of all closures, closure by closure
RECURSIVE BatchesUpTo(_)
BatchesUpTo(i) ==
    IF i < 0 THEN <<>> ELSE BatchesUpTo(i - 1) \o tasks[i].batches

AllBatches == BatchesUpTo(vcall.num_chunks - 1)

\* n is one of the numbers a closure has checked
WasChecked(n) ==
    \E i \in DOMAIN tasks : \E k \in DOMAIN tasks[i].batches :
        LET b == tasks[i].batches[k]
        IN  /\ 0 \in n
            /\ BigCmp(n, b.from) # "Less"
            /\ BigCmp(n, BigAdd(b.from, NatBits(2 * b.count))) = "Less"

\* the verifier has returned a result over at least one chunk
ReturnedResult == Returned /\ ~vret.panic /\ BigCmp(vcall.start, vcall.end) # "Greater"

\* C12: whatever the order of the closures' updates after their loops, a
\* returned run (cut short by the flag or not) in which a checked number
\* converges has max_stopping_time equal to the largest stopping time of
\* the checked numbers, and max_stopping_time_number is a checked number
\* with that stopping time, itself the local argmax of a closure whose
\* local maximum is the global one
C12_TrueMaximum ==
    ReturnedResult =>
        \E pass \in {SeqBatches(vcall, AllBatches, SeqStart)} :
            pass.converged # {} =>
                /\ vret.max_stopping_time = pass.max_st
                /\ WasChecked(vret.max_stopping_time_number)
                /\ StoppingTimeOf(vcall, vret.max_stopping_time_number,
                                  GpkStats_new).ret
                       = Some(vret.max_stopping_time)
                /\ pass.max_st > 0 =>
                       \E i \in DOMAIN tasks :
                           /\ tasks[i].pc = "done" /\ tasks[i].batches # <<>>
                           /\ tasks[i].local_max_st = pass.max_st
                           /\ tasks[i].local_max_st_n
                                  = vret.max_stopping_time_number

\* an uncancelled run over two chunks has returned; the closure with the
\* smaller local maximum had found the global maximum below its own and
\* had gone for the mutex
Witness_C12 ==
    /\ ReturnedResult /\ ~cancel
    /\ vcall.num_chunks = 2
    /\ \E i, j \in DOMAIN tasks :
           /\ tasks[i].batches # <<>> /\ tasks[j].batches # <<>>
           /\ tasks[i].local_max_st < tasks[j].local_max_st
           /\ tasks[i].prev_max < tasks[i].local_max_st
           /\ vret.max_stopping_time = tasks[j].local_max_st

\* C13: the statistics a run returns are those of one sequential pass over
\* the numbers it checked, the five totals and the 128 bins alike, whatever
\* the order in which the closures merged their own
C13_StatsAsOnePass ==
    ReturnedResult =>
        vret.gpk_stats = SeqBatches(vcall, AllBatches, SeqStart).stats

\* a run over two chunks has returned statistics to which both closures
\* have added steps and carry chains
Witness_C13 ==
    /\ ReturnedResult
    /\ vcall.num_chunks = 2
    /\ \A i \in DOMAIN tasks :
           /\ tasks[i].batches # <<>>
           /\ tasks[i].local_gpk.total_steps > 0
           /\ tasks[i].local_gpk.carry_chain_hist # GpkStats_new.carry_chain_hist
    /\ vret.gpk_stats.total_steps
           = tasks[0].local_gpk.total_steps + tasks[1].local_gpk.total_steps
    /\ vret.gpk_stats.total_pairs > 0

\* the closure of chunk i has put what it gathered into the globals: its
\* failures are among the returned ones and its local maximum is not above
\* the returned one
Finalised(i) ==
    /\ tasks[i].pc = "done"
    /\ tasks[i].batches # <<>> =>
           /\ Range(tasks[i].local_failures) \subseteq Range(vret.failures)
           /\ tasks[i].local_max_st <= vret.max_stopping_time
           /\ tasks[i].local_gpk.total_steps <= vret.gpk_stats.total_steps
           /\ tasks[i].unreported <= vret.total_checked

\* what a returned run of the cancellable verifier holds: total_checked is
\* the number of trajectories computed, and each of them is in the result
\* once, as a failure or as a candidate of the maximum, and in gpk_stats
C14_Results ==
    (ReturnedResult /\ vcall.fn = Cancellable) =>
        /\ vret.total_checked = Checked
        /\ \A i \in DOMAIN tasks : Finalised(i)
        /\ \E pass \in {SeqBatches(vcall, AllBatches, SeqStart)} :
               /\ pass.count = vret.total_checked
               /\ Range(vret.failures) = pass.failures
               /\ Len(vret.failures) = Cardinality(pass.failures)
               /\ vret.all_converged <=> (pass.failures = {})
               /\ vret.max_stopping_time = pass.max_st
               /\ Len(vret.failures) + Cardinality(pass.converged) > 0
                      <=> vret.total_checked > 0
               /\ vret.gpk_stats.total_steps = pass.stats.total_steps
               /\ vret.gpk_stats.total_pairs = pass.stats.total_pairs

\* a step of a cancellable run taken with the flag raised starts no
\* trajectory: no closure checks a further number
C14_NoTrajectoryAfterRaisedPoll ==
    (vcall.fn = Cancellable /\ vret = Absent /\ cancel)
    => (vcall' = vcall => AllBatches' = AllBatches)

\* C14: the cancellable verifier polls the flag on entering a chunk and
\* before each odd number and starts no trajectory once it has seen the flag
\* raised; a closure that computed a trajectory still reports, updates the
\* maximum and merges, so total_checked is the number of numbers computed
\* and each is in the result exactly once
C14_CancellableVerifier ==
    []C14_Results /\ [][C14_NoTrajectoryAfterRaisedPoll]_vars

\* a run over two chunks was cancelled on its way: one closure saw the flag
\* on entering its chunk, the other had checked numbers before it saw it
Witness_C14 ==
    /\ ReturnedResult /\ vcall.fn = Cancellable /\ cancel
    /\ vcall.num_chunks = 2
    /\ \E i, j \in DOMAIN tasks :
           /\ tasks[i].batches = <<>>
           /\ tasks[j].batches # <<>>
           /\ tasks[j].unreported > 0
    /\ vret.total_checked > 0
    /\ vret.total_checked < OddCount

\* the closures inside progress_callback
InCallback == {i \in DOMAIN tasks : tasks[i].pc = "in_callback"}

\* the closures that hold a value of done: between fetch_add and the return
\* of progress_callback
Reporting == {i \in DOMAIN tasks : tasks[i].pc \in {"report", "in_callback"}}

\* a report comes after 100 newly checked numbers inside the chunk and
\* after 1 to 99 at its end, and the counter it read does not run ahead of
\* the numbers checked
ReportsInStep ==
    \A i \in Reporting :
        /\ tasks[i].final => tasks[i].unreported \in 1..(report_every - 1)
        /\ ~tasks[i].final => tasks[i].unreported = report_every
        /\ tasks[i].done >= tasks[i].unreported
        /\ tasks[i].done <= glob.done
        /\ glob.done <= Checked

\* every reported done is at most total
ReportsWithinTotal == \A i \in Reporting : tasks[i].done <= vcall.total_odd

\* C17: progress_callback is invoked under a mutex, so no two closures are
\* inside it at the same time; each report comes after at most 100 newly
\* checked numbers; every reported done is at most total; the counter ends
\* at total_checked
C17_ReportsUnderMutex ==
    vcall.fn # "none" =>
        /\ Cardinality(InCallback) <= 1
        /\ ReportsInStep
        /\ ReportsWithinTotal
        /\ ReturnedResult => vret.total_checked = glob.done

\* the part of C17 that the runs away from the top of the 64-bit range
\* keep: the rhythm of the reports, done <= total and the final counter
C17_ReportsBelowTheTop ==
    (vcall.fn # "none"
     /\ ~u64_overflows(BigAdd(vcall.end, NatBits(2 * chunk_size))))
    => /\ ReportsInStep
       /\ ReportsWithinTotal
       /\ Returned => ~vret.panic
       /\ ReturnedResult => (vret.total_checked = glob.done
                             /\ glob.done = Checked)

\* the closure of chunk i has its locals
HasLocals(i) == "chunk_start" \in DOMAIN tasks[i]

\* chunk_end of closure i is the value of min(chunk_start + 2 * (chunk_size
\* - 1), end) on unbounded integers, and every stretch of numbers the
\* closure has checked lies in chunk_start..chunk_end: n never wrapped
IndicesExact(i) ==
    LET t == tasks[i]
    IN  /\ t.chunk_end
               = u64_min(BigAdd(t.chunk_start, NatBits((chunk_size - 1) * 2)),
                         vcall.end)
        /\ \A k \in DOMAIN t.batches :
               /\ BigCmp(t.batches[k].from, t.chunk_start) # "Less"
               /\ t.batches[k].count > 0 =>
                      BigCmp(BigAdd(t.batches[k].from,
                                    NatBits(2 * (t.batches[k].count - 1))),
                             t.chunk_end) # "Greater"

\* C29: in the 64-bit parallel verifier no index computation leaves the
\* 64-bit range, whatever bounds fit in 64 bits, end = 2^64 - 1 included:
\* chunk_start + 2 * (chunk_size - 1) and n += 2 neither panic nor wrap, so
\* the last chunk ends after its last odd number and no number is skipped
\* or visited again
C29_IndicesWithin64Bits ==
    /\ \A i \in DOMAIN tasks :
           /\ tasks[i].pc # "panicked"
           /\ HasLocals(i) => IndicesExact(i)
    /\ Returned => ~vret.panic
    /\ (ReturnedResult /\ ~cancel) => Checked = OddCount

\* the same for the ranges that end at least 2 * chunk_size below 2^64
C29_WithinBelowTheTop ==
    (vcall.fn # "none"
     /\ ~u64_overflows(BigAdd(vcall.end, NatBits(2 * chunk_size))))
        => C29_IndicesWithin64Bits

\* a run whose only chunk starts at 2^64 - 1 has ended
Witness_C29 ==
    /\ Returned
    /\ vcall.start = 0..(U64_BITS - 1)
    /\ vcall.end = 0..(U64_BITS - 1)
    /\ vret.panic \/ vret.total_checked = 0

(***************************************************************************)
(* SpecGui: the background worker threads of the host UI (gui.rs)          *)
(***************************************************************************)
\* worker threads one behaviour spawns, and reports one engine run makes
\* that get past the 200 ms throttle
MaxThreads == 2
MaxReports == 2

offGui == <<stepvars, trajvars, cancelvars, verifyvars, unitvars>>

\* Mutex::lock() of the shared state returns, Ok or Err: the mutex is free
lock_returns == ~state.held

\* Mutex::lock() returns Ok: free, and no thread panicked while holding it
lock_ok == ~state.held /\ ~state.poisoned

\* Mutex::lock() returns Err(PoisonError): free, but poisoned
lock_err == ~state.held /\ state.poisoned

\* the button handler: "let .. = self.<state>.lock().unwrap().running" lets
\* the button through when no run is shown as running; the handler sets
\* running = true, clears the result and spawns the worker
Start(fn) ==
    /\ driver \in {"none", fn}
    /\ Len(threads) < MaxThreads
    /\ lock_ok
    /\ ~state.running
    /\ driver' = fn
    /\ state' = [state EXCEPT !.running = TRUE, !.result = FALSE]
    /\ \E r \in 0..MaxReports :
           threads' = Append(threads, [pc |-> "spawned", reports |-> r,
                                       panicked |-> FALSE])
    /\ UNCHANGED offGui

\* fn start_trace(&mut self)
start_trace == Start("start_trace")

\* fn start_verify(&mut self)
start_verify == Start("start_verify")

\* let _guard = TraceGuard(state_guard) / RunGuard(state_guard); the engine
\* starts
MakeGuard(w) ==
    /\ threads[w].pc = "spawned"
    /\ threads' = [threads EXCEPT ![w].pc = "engine"]
    /\ UNCHANGED <<driver, state, offGui>>

\* the progress closure got last_update by try_lock and the 200 ms have
\* passed: "let mut s = state_cb.lock().unwrap()", which panics when the
\* mutex is poisoned
CallbackLock(w) ==
    /\ threads[w].pc = "engine"
    /\ threads[w].reports > 0
    /\ \/ /\ lock_ok
          /\ state' = [state EXCEPT !.held = TRUE]
          /\ threads' = [threads EXCEPT ![w].pc = "callback"]
       \/ /\ lock_err
          /\ threads' = [threads EXCEPT ![w].pc = "drop", ![w].panicked = TRUE]
          /\ UNCHANGED state
    /\ UNCHANGED <<driver, offGui>>

\* the closure writes the progress fields and s goes out of scope
CallbackWrite(w) ==
    /\ threads[w].pc = "callback"
    /\ state' = [state EXCEPT !.held = FALSE]
    /\ threads' = [threads EXCEPT ![w].pc = "engine", ![w].reports = @ - 1]
    /\ UNCHANGED <<driver, offGui>>

\* the engine returns its result; elapsed, cancelled and the log follow
EngineReturn(w) ==
    /\ threads[w].pc = "engine"
    /\ threads[w].reports = 0
    /\ threads' = [threads EXCEPT ![w].pc = "finish"]
    /\ UNCHANGED <<driver, state, offGui>>

\* let mut s = state.lock().unwrap()
FinishLock(w) ==
    /\ threads[w].pc = "finish"
    /\ \/ /\ lock_ok
          /\ state' = [state EXCEPT !.held = TRUE]
          /\ threads' = [threads EXCEPT ![w].pc = "finish_held"]
       \/ /\ lock_err
          /\ threads' = [threads EXCEPT ![w].pc = "drop", ![w].panicked = TRUE]
          /\ UNCHANGED state
    /\ UNCHANGED <<driver, offGui>>

\* s.running = false
FinishRunning(w) ==
    /\ threads[w].pc = "finish_held"
    /\ state' = [state EXCEPT !.running = FALSE]
    /\ threads' = [threads EXCEPT ![w].pc = "finish_result"]
    /\ UNCHANGED <<driver, offGui>>

\* s.result = Some(..); the closure ends and s is dropped
FinishResult(w) ==
    /\ threads[w].pc = "finish_result"
    /\ state' = [state EXCEPT !.result = TRUE, !.held = FALSE]
    /\ threads' = [threads EXCEPT ![w].pc = "drop"]
    /\ UNCHANGED <<driver, offGui>>

\* the worker holds the MutexGuard of the shared state
HoldsState(w) == threads[w].pc \in {"callback", "finish_held", "finish_result"}

\* a panic at some point of the worker after the guard was made: unwinding
\* drops a MutexGuard the worker holds, which poisons the mutex, and then
\* the TraceGuard / RunGuard
WorkerPanic(w) ==
    /\ threads[w].pc \in {"engine", "callback", "finish", "finish_held",
                          "finish_result"}
    /\ state' = IF HoldsState(w)
                 THEN [state EXCEPT !.held = FALSE, !.poisoned = TRUE]
                 ELSE state
    /\ threads' = [threads EXCEPT ![w].pc = "drop", ![w].panicked = TRUE]
    /\ UNCHANGED <<driver, offGui>>

\* impl Drop: if let Ok(mut s) = self.0.lock() { s.running = false; }
guard_drop == IF state.poisoned THEN state ELSE [state EXCEPT !.running = FALSE]

\* the guard is dropped at the end of the thread, on return and on unwinding
GuardDrop(w) ==
    /\ threads[w].pc = "drop"
    /\ lock_returns
    /\ state' = guard_drop
    /\ threads' = [threads EXCEPT ![w].pc = "ended"]
    /\ UNCHANGED <<driver, offGui>>

NextGui ==
    \/ start_trace
    \/ start_verify
    \/ \E w \in DOMAIN threads : MakeGuard(w)
    \/ \E w \in DOMAIN threads : CallbackLock(w)
    \/ \E w \in DOMAIN threads : CallbackWrite(w)
    \/ \E w \in DOMAIN threads : EngineReturn(w)
    \/ \E w \in DOMAIN threads : FinishLock(w)
    \/ \E w \in DOMAIN threads : FinishRunning(w)
    \/ \E w \in DOMAIN threads : FinishResult(w)
    \/ \E w \in DOMAIN threads : WorkerPanic(w)
    \/ \E w \in DOMAIN threads : GuardDrop(w)

SpecGui == Init /\ [][NextGui]_vars

\* every worker thread spawned has ended
AllEnded == threads # <<>> /\ \A w \in DOMAIN threads : threads[w].pc = "ended"

C16_UnlessPoisoned == (AllEnded /\ ~state.poisoned) => ~state.running

(***************************************************************************)
(* SpecUnit: single functions applied to inputs of bounded sets            *)
(***************************************************************************)
\* pairs of the short raw streams
MaxRawPairs == 4

offUnit == <<stepvars, trajvars, cancelvars, verifyvars, guivars>>

\* the raw streams of raw_pair_count pairs whose fastener view spells V
RawOf(V, raw_pair_count) ==
    [new_m4 |-> PackWords({i \in 0..(raw_pair_count - 1) : 2 * i + 1 \in V},
                          DivCeil(raw_pair_count, WORD)),
     new_m6 |-> PackWords({i \in 0..(raw_pair_count - 1) : 2 * i \in V},
                          DivCeil(raw_pair_count, WORD)),
     raw_pair_count |-> raw_pair_count]

\* raw streams given to postprocess: every stream of up to MaxRawPairs
\* pairs, zero and leading (0,0) pairs included, and long ones with one or
\* two all-zero low words, boundary pairs next to the word boundary and
\* leading (0,0) pairs across it
RawInputs ==
    UNION {{RawOf(V, k) : V \in SUBSET (0..(2 * k - 1))} : k \in 1..MaxRawPairs}
      \cup {RawOf(V, k) :
               V \in {{2 * WORD}, {2 * WORD + 1}, {2 * WORD + 2},
                      {2 * WORD, 2 * WORD + 3}, {2 * WORD - 1},
                      {2 * WORD - 2, 2 * WORD + 2}, {2 * WORD - 2, 2 * WORD + 1},
                      {1, 2 * WORD + 2}, {0, 2 * WORD}, {3, 2 * WORD - 1},
                      {4 * WORD}, {4 * WORD + 1, 4 * WORD + 4},
                      {4 * WORD + 3, 4 * WORD + 5}},
               k \in {2 * WORD + 3, 2 * WORD + 5}}
      \cup {RawOf(V, WORD) : V \in {{2 * WORD - 1}, {2 * WORD - 2},
                                      {5, 2 * WORD - 2}, {2 * WORD - 3}}}

\* postprocess(new_m4, new_m6, raw_pair_count)
Postprocess ==
    /\ unit.fn = "none"
    /\ \E r \in RawInputs :
           unit' = [fn |-> "postprocess", new_m4 |-> r.new_m4,
                    new_m6 |-> r.new_m6, raw_pair_count |-> r.raw_pair_count,
                    out |-> postprocess(r.new_m4, r.new_m6, r.raw_pair_count)]
    /\ UNCHANGED <<ustats, offUnit>>

\* the pair indices at which a packed stream has a 1 below pair_count
StreamPairs(words, pair_count) ==
    {i \in 0..(pair_count - 1) : (i % WORD) \in At(words, i \div WORD)}

\* the value V the raw streams of the last postprocess call stand for
UnitV ==
    {2 * i + 1 : i \in StreamPairs(unit.new_m4, unit.raw_pair_count)}
      \cup {2 * i : i \in StreamPairs(unit.new_m6, unit.raw_pair_count)}

\* bit i of the raw m4 and m6 streams, 0 beyond the raw pairs
RawM4(i) == Bit(StreamPairs(unit.new_m4, unit.raw_pair_count), i)

RawM6(i) == Bit(StreamPairs(unit.new_m6, unit.raw_pair_count), i)

\* postprocess has been applied to raw streams of a positive value
PostprocessedPositive == unit.fn = "postprocess" /\ UnitV # {}

\* C21: for raw streams of a value V > 0, postprocess returns d = the
\* number of trailing zero bits of V in the fastener view, next = V >> d
\* and exchanged = (d odd); for even d output pair j takes (m4, m6) of
\* input pair j + d/2, for odd d the new m6[j] is the old m4[j + (d-1)/2]
\* and the new m4[j] the old m6[j + (d+1)/2]
C21_Postprocess ==
    PostprocessedPositive =>
        \E d \in {SetMin(UnitV)} : \E next \in {unit.out.next} :
            /\ unit.out.d = d
            /\ to_biguint(next) = BigShr(UnitV, d)
            /\ unit.out.exchanged = (d % 2 = 1)
            /\ \A j \in 0..unit.raw_pair_count :
                   IF d % 2 = 0
                   THEN /\ get_m4(next, j) = RawM4(j + d \div 2)
                        /\ get_m6(next, j) = RawM6(j + d \div 2)
                   ELSE /\ get_m6(next, j) = RawM4(j + (d - 1) \div 2)
                        /\ get_m4(next, j) = RawM6(j + (d + 1) \div 2)

\* two all-zero low words and a boundary pair with m6 = 0: d = 257, the
\* streams are exchanged
Witness_C21 ==
    /\ PostprocessedPositive
    /\ UnitV = {4 * WORD + 1, 4 * WORD + 4}
    /\ unit.raw_pair_count = 2 * WORD + 5
    /\ unit.out.d = 4 * WORD + 1
    /\ unit.out.exchanged
    /\ to_biguint(unit.out.next) = {0, 3}

\* the trimmed pair count k of the raw input: the top non-zero pair is k - 1
RawK == (SetMax(UnitV) \div 2) + 1

\* C22 as stated: the pair count of next is ceil((2k - d)/2)
C22_PairCountAsStated ==
    PostprocessedPositive =>
        unit.out.next.pair_count = DivCeil(2 * RawK - unit.out.d, 2)

\* C22: the pair count of next is ceil((2k - d)/2), or one less when d is
\* odd and the top pair of the raw input has m4 = 0: the shift then leaves a
\* (0,0) pair on top, which the second trim removes; in both cases it is
\* the pair count of the value V >> d
C22_PairCountAfterTrim ==
    PostprocessedPositive =>
        /\ unit.out.next.pair_count
              = DivCeil(2 * RawK - unit.out.d, 2)
                  - (IF unit.out.d % 2 = 1 /\ RawM4(RawK - 1) = 0 THEN 1 ELSE 0)
        /\ unit.out.next.pair_count
              = DivCeil(BitLen(BigShr(UnitV, unit.out.d)), 2)
        /\ unit.out.next = from_biguint(BigShr(UnitV, unit.out.d))

\* 82 = 1010010b in four pairs: d = 1, next = 41 has three pairs, one less
\* than ceil((8 - 1)/2)
Witness_C22 ==
    /\ PostprocessedPositive
    /\ UnitV = {1, 4, 6}
    /\ unit.raw_pair_count = 4
    /\ unit.out.d = 1
    /\ unit.out.next.pair_count = 3

\* 64-bit words given to kogge_stone_prefix as g and as p: every word
\* with bits below MaxWordBits, also moved to the top of the word, and words
\* with long runs of ones
MaxWordBits == 3

WordInputs ==
    SUBSET (0..(MaxWordBits - 1))
      \cup {{i + (WORD - MaxWordBits) : i \in S} : S \in SUBSET (0..(MaxWordBits - 1))}
      \cup {0..(WORD - 1), 1..(WORD - 1), (0..(WORD - 1)) \ {31},
            {2 * i : i \in 0..31}, {2 * i + 1 : i \in 0..31},
            0..31, 32..(WORD - 1), {0, 32}, (0..(WORD - 1)) \ {0, 16}}

\* kogge_stone_prefix(g, p)
KoggeStonePrefix ==
    /\ unit.fn = "none"
    /\ \E g, p \in WordInputs :
           unit' = [fn |-> "kogge_stone_prefix", g |-> g, p |-> p,
                    out |-> kogge_stone_prefix(g, p)]
    /\ UNCHANGED <<ustats, offUnit>>

RECURSIVE FoldRange(_, _, _, _, _)
\* the fold of (g_hi, p_hi) o (g_lo, p_lo) = (g_hi or (p_hi and g_lo),
\* p_hi and p_lo) over the positions lo..hi-1 in increasing order, onto acc
FoldRange(g, p, lo, hi, acc) ==
    IF lo >= hi \/ ~Evaluated(acc) THEN acc
    ELSE IF hi - lo = 1
    THEN [g |-> BOr(Bit(g, lo), BAnd(Bit(p, lo), acc.g)),
          p |-> BAnd(Bit(p, lo), acc.p)]
    ELSE FoldRange(g, p, (lo + hi) \div 2, hi,
                   FoldRange(g, p, lo, (lo + hi) \div 2, acc))

\* the fold over 0..i from the identity (0, 1)
FoldUpTo(g, p, i) == FoldRange(g, p, 0, i + 1, [g |-> 0, p |-> 1])

RECURSIVE RippleRange(_, _, _, _, _)
\* a sequential ripple over the positions lo..hi-1 entered with carry c:
\* c_i = g_i or (p_i and c_(i-1))
RippleRange(g, p, lo, hi, c) ==
    IF lo >= hi \/ ~Evaluated(c) THEN c
    ELSE IF hi - lo = 1 THEN BOr(Bit(g, lo), BAnd(Bit(p, lo), c))
    ELSE RippleRange(g, p, (lo + hi) \div 2, hi,
                     RippleRange(g, p, lo, (lo + hi) \div 2, c))

\* the carry out of position i of the ripple over the word started with c_in
Ripple(g, p, i, c_in) == RippleRange(g, p, 0, i + 1, c_in)

\* C23: kogge_stone_prefix(g, p) holds at each bit i the fold of the
\* operator over the positions 0..i, the bits the shifts let into p being 1;
\* so bit i of g_pfx or (p_pfx and c_in) is the carry out of position i of
\* a sequential ripple started with c_in
C23_KoggeStoneIsFold ==
    unit.fn = "kogge_stone_prefix" =>
        \A i \in 0..(WORD - 1) :
            /\ \E f \in {FoldUpTo(unit.g, unit.p, i)} :
                   /\ Bit(unit.out.g, i) = f.g
                   /\ Bit(unit.out.p, i) = f.p
            /\ \A c_in \in {0, 1} :
                   BOr(Bit(unit.out.g, i), BAnd(Bit(unit.out.p, i), c_in))
                       = Ripple(unit.g, unit.p, i, c_in)

\* p all ones and g empty: the prefix of p is all ones only because the
\* vacated bits were filled with 1, and the carry-in reaches bit 63
Witness_C23 ==
    /\ unit.fn = "kogge_stone_prefix"
    /\ unit.g = {}
    /\ unit.p = 0..(WORD - 1)
    /\ unit.out.p = 0..(WORD - 1)
    /\ unit.out.g = {}

\* streams given to extract_window: the pair counts, the shapes of the
\* stream below the pair count, and the signed starts
WindowPairCounts == {0, 1, 5, WORD - 1, WORD, WORD + 1, WORD + 6, 2 * WORD, 2 * WORD + 2}

WindowStreams(k) ==
    {PackWords(S, DivCeil(k, WORD)) :
        S \in {0..(k - 1), {i \in 0..(k - 1) : i % 2 = 0}, {k - 1} \cap (0..(k - 1)),
               {i \in 0..(k - 1) : i % 3 = 1 \/ i \in {WORD - 1, WORD}}}}
      \cup {[w \in 1..DivCeil(k, WORD) |-> 0..(WORD - 1)]}

WindowStarts ==
    {-(2 * WORD + 2), -(WORD + 1), -WORD, -(WORD - 1), -5, -1, 0, 1, 5,
     WORD - 4, WORD - 1, WORD, WORD + 1, WORD + 2, WORD + 5, 2 * WORD - 1,
     2 * WORD, 2 * WORD + 1, 2 * WORD + 2, 3 * WORD + 8}

\* extract_window(words, pair_count, start)
ExtractWindow ==
    /\ unit.fn = "none"
    /\ \E k \in WindowPairCounts : \E words \in WindowStreams(k) :
       \E start \in WindowStarts :
           unit' = [fn |-> "extract_window", words |-> words, pair_count |-> k,
                    start |-> start, out |-> extract_window(words, k, start)]
    /\ UNCHANGED <<ustats, offUnit>>

\* C24: bit j of extract_window(words, pair_count, start) is the stream's
\* bit at pair index start + j when 0 <= start + j < pair_count, and 0
\* otherwise, for every signed start
C24_WindowBits ==
    unit.fn = "extract_window" =>
        unit.out = {j \in 0..(WORD - 1) :
                       /\ unit.start + j >= 0
                       /\ unit.start + j < unit.pair_count
                       /\ (unit.start + j) \in
                              StreamPairs(unit.words, unit.pair_count)}

\* a window from a negative start that also runs over the pair count
Witness_C24 ==
    /\ unit.fn = "extract_window"
    /\ unit.start = -5
    /\ unit.pair_count = 5
    /\ unit.out = 5..9

\* the two-stage adder of one pair entered with carry c, as the loop body
\* of the sequential scan runs it, with the class it records
PairGpk ==
    /\ unit.fn = "none"
    /\ \E p_r, q_r, p_l, q_l, c \in {0, 1} :
           unit' = [fn |-> "pair_gpk", p_r |-> p_r, q_r |-> q_r, p_l |-> p_l,
                    q_l |-> q_l, c |-> c,
                    gpk |-> pair_gpk(p_r, q_r, p_l, q_l),
                    st |-> ScanIteration([ScanInit EXCEPT !.c = c], 1, 0,
                                         p_r, q_r, p_l, q_l, 1)]
    /\ UNCHANGED <<ustats, offUnit>>

\* words given to packed_scan_word as p_r, q_r, p_l and q_l
ScanWords ==
    {{}, 0..(WORD - 1), {2 * i : i \in 0..31}, {0, 1, 5, 31, 32, WORD - 1},
     (0..(WORD - 1)) \ {0, 7, 33}}

\* packed_scan_word(p_r, q_r, p_l, q_l, carry_in)
PackedScanWord ==
    /\ unit.fn = "none"
    /\ \E p_r, q_r, p_l, q_l \in ScanWords : \E carry_in \in {0, 1} :
           unit' = [fn |-> "packed_scan_word", p_r |-> p_r, q_r |-> q_r,
                    p_l |-> p_l, q_l |-> q_l, c |-> carry_in,
                    out |-> packed_scan_word(p_r, q_r, p_l, q_l, carry_in)]
    /\ UNCHANGED <<ustats, offUnit>>

RECURSIVE WordScan(_, _, _, _, _, _, _)
\* the sequential two-stage adder over the pairs lo..hi-1 of four words
WordScan(p_r, q_r, p_l, q_l, lo, hi, st) ==
    IF lo >= hi \/ ~Evaluated(st) THEN st
    ELSE IF hi - lo = 1
    THEN ScanIteration(st, WORD, lo, Bit(p_r, lo), Bit(q_r, lo), Bit(p_l, lo),
                       Bit(q_l, lo), WORD)
    ELSE WordScan(p_r, q_r, p_l, q_l, (lo + hi) \div 2, hi,
                  WordScan(p_r, q_r, p_l, q_l, lo, (lo + hi) \div 2, st))

\* the carry a pair of class gpk puts out when c comes in
ClassCarry(gpk, c) == IF gpk = "G" THEN 1 ELSE IF gpk = "P" THEN c ELSE 0

\* the class the masks (g, p) hold at pair i
MaskClass(g, p, i) == IF i \in g THEN "G" ELSE IF i \in p THEN "P" ELSE "K"

\* C25: the class recorded for a pair is the carry behaviour of its
\* two-stage adder (m6 stage, then m4 stage): for every incoming carry c the
\* carry out is G_pair or (P_pair and c), so Generate puts out 1, Kill 0 and
\* Propagate c, and G_pair and P_pair are never both 1; in the packed scan
\* the masks of a word hold these classes and its outputs are those of the
\* adders run pair by pair
C25_ClassIsCarryBehaviour ==
    /\ unit.fn = "pair_gpk" =>
          /\ unit.st.c = ClassCarry(unit.gpk, unit.c)
          /\ MaskClass(unit.st.g, unit.st.p, 0) = unit.gpk
          /\ unit.st.g \cap unit.st.p = {}
          /\ unit.st.g_count + unit.st.p_count + unit.st.k_count = 1
    /\ unit.fn = "packed_scan_word" =>
          \E st \in {WordScan(unit.p_r, unit.q_r, unit.p_l, unit.q_l, 0, WORD,
                               [ScanInit EXCEPT !.c = unit.c])} :
              /\ unit.out.g_pair = st.g
              /\ unit.out.p_pair = st.p
              /\ unit.out.g_pair \cap unit.out.p_pair = {}
              /\ unit.out.new_m4 = st.m4
              /\ unit.out.new_m6 = st.m6
              /\ unit.out.carry_out = st.c

\* a Propagate pair that hands on the carry it gets through both stages
Witness_C25 ==
    /\ unit.fn = "pair_gpk"
    /\ unit.gpk = "P"
    /\ unit.c = 1
    /\ unit.st.c = 1
    /\ unit.st.m4 = {} /\ unit.st.m6 = {}

\* stopping_time_with_gpk(n, x, max_steps, gpk_stats, use_stopping_time)
\* with c = its arguments and stats = *gpk_stats
stopping_time_with_gpk(c, stats) ==
    IF c.n = BigOne THEN Outcome(Some(0), stats)
    ELSE fast_pair_scan(c, from_biguint(c.n), 0, stats)

\* starts of the calls with statistics: small ones, and 64-bit ones
FastStatsStarts ==
    {NatBits(v) : v \in {1, 3, 5, 7, 9, 11, 13, 15, 27}}
      \cup {0..(WORD - 1), {0, WORD - 1}}

\* multipliers of the calls with statistics: 3, 5, 2^32 + 1 and 2^63 + 1
FastStatsX == {{0, 1}, {0, 2}, {0, 32}, {0, WORD - 1}}

\* the arguments of a call with statistics
FastStatsArgs(n, x, max_steps, use_phase1, use_stopping_time) ==
    [n |-> n, x |-> x, max_steps |-> max_steps, collect_gpk |-> TRUE,
     use_phase1 |-> use_phase1, use_stopping_time |-> use_stopping_time]

\* stopping_time_u64_fast with use_phase1 = true and = false and
\* stopping_time_with_gpk, each with Some(&mut GpkStats::new()), on the same
\* n, x, max_steps and use_stopping_time
FastStats ==
    /\ unit.fn = "none"
    /\ \E n \in FastStatsStarts, x \in FastStatsX,
          max_steps \in {1, 2, MaxSteps}, use_stopping_time \in BOOLEAN :
           unit' = [fn |-> "stopping_time_u64_fast", n |-> n, x |-> x,
                    max_steps |-> max_steps,
                    use_stopping_time |-> use_stopping_time,
                    with_phase1 |->
                        stopping_time_u64_fast(
                            FastStatsArgs(n, x, max_steps, TRUE, use_stopping_time),
                            GpkStats_new),
                    without_phase1 |->
                        stopping_time_u64_fast(
                            FastStatsArgs(n, x, max_steps, FALSE, use_stopping_time),
                            GpkStats_new),
                    with_gpk |->
                        stopping_time_with_gpk(
                            FastStatsArgs(n, x, max_steps, FALSE, use_stopping_time),
                            GpkStats_new)]
    /\ UNCHANGED <<ustats, offUnit>>

\* the values at which the steps of the last call with statistics were
\* taken: the start and the iterates before the last one
FastStatsVisited ==
    LET k == unit.with_gpk.stats.total_steps
    IN  IF k = 0 THEN <<>>
        ELSE <<unit.n>> \o RefIterates(unit.n, unit.x, k - 1)

\* a step of the last call was taken at a value v with x * v beyond 256
\* bits, where Phase 1.5 hands over to the pair scan
FastStatsHandsOver ==
    \E j \in DOMAIN FastStatsVisited :
        BigBits(BigMul(FastStatsVisited[j], unit.x)) > U256_BITS

\* C27: the statistics accumulated by stopping_time_u64_fast with
\* use_phase1 = true equal, field by field and bin by bin, those with
\* use_phase1 = false and those of stopping_time_with_gpk on the same start,
\* multiplier and budget: every executed step is counted exactly once, also
\* across the hand-overs between the phases
C27_SameStatistics ==
    unit.fn = "stopping_time_u64_fast" =>
        /\ unit.with_phase1.stats = unit.without_phase1.stats
        /\ unit.with_phase1.stats = unit.with_gpk.stats
        /\ unit.with_phase1.stats.total_steps
               = IF unit.with_phase1.ret.some THEN unit.with_phase1.ret.v
                 ELSE unit.max_steps

\* the statistics agree in every call that stays within 256 bits, the
\* hand-over from Phase 1 to Phase 1.5 included
C27_SameStatisticsWithin256 ==
    (unit.fn = "stopping_time_u64_fast" /\ ~FastStatsHandsOver) =>
        /\ unit.with_phase1.stats = unit.without_phase1.stats
        /\ unit.with_phase1.stats = unit.with_gpk.stats
        /\ unit.with_phase1.ret = unit.without_phase1.ret

\* a call that went from Phase 1 through Phase 1.5 into the pair scan
Witness_C27 ==
    /\ unit.fn = "stopping_time_u64_fast"
    /\ FastStatsHandsOver
    /\ unit.with_phase1.ret = unit.without_phase1.ret
    /\ unit.with_gpk.stats.total_steps = MaxSteps

\* a call that went from Phase 1 into Phase 1.5 and stayed there
Witness_C27_Phase15 ==
    /\ unit.fn = "stopping_time_u64_fast"
    /\ ~FastStatsHandsOver
    /\ \E j \in DOMAIN FastStatsVisited :
           ~within_overflow_limit(FastStatsVisited[j], unit.x)

\* (2^w - 1) / 3 = 0101..01 and (2^w - 1) / 5 = 0011..0011 for w = 128, 256
ThirdOfOnes(w) == {i \in 0..(w - 1) : i % 2 = 0}
FifthOfOnes(w) == {i \in 0..(w - 1) : i % 4 \in {0, 1}}

\* values of current / cur256 next to the top of a w-bit phase: the odd
\* values around (2^w - 1) / 3 and (2^w - 1) / 5, where x * v + 1 = 2^w for
\* x = 3 and 5, the largest w-bit values, and values that need all w bits
\* only after the multiplication by 2^63 + 1
TopOfPhase(w) ==
    {ThirdOfOnes(w), ThirdOfOnes(w) \ {2}, ThirdOfOnes(w) \cup {1},
     FifthOfOnes(w), FifthOfOnes(w) \ {1}, FifthOfOnes(w) \cup {2},
     0..(w - 1), 0..(w - 2), {0, w - 1},
     0..(w - WORD), 0..(w - WORD - 1), {0, w - WORD}, {0, w - WORD - 1}}

\* values given to one iteration of Phase 1
Phase1Values ==
    {NatBits(v) : v \in {1, 3, 5, 7, 27}} \cup TopOfPhase(U128_BITS)

\* values given to one iteration of Phase 1.5: values Phase 1 turned away,
\* and values next to the top of 256 bits
Phase15Values ==
    {v \in TopOfPhase(U128_BITS) : BigBits(v) > U128_BITS - WORD}
      \cup TopOfPhase(U256_BITS)

\* multipliers of the single iterations: 3, 5, 2^63 + 1
PhaseX == {{0, 1}, {0, 2}, {0, WORD - 1}}

\* one pass of the Phase 1 loop of stopping_time_u64_fast at current: the
\* test "current <= overflow_limit" and, if it lets the pass in, the body
Phase1Step ==
    /\ unit.fn = "none"
    /\ \E current \in Phase1Values, x \in PhaseX :
         \E xn1 \in {u128_mul_add_one(current, x)} :
           unit' = [fn |-> "phase1", v |-> current, x |-> x,
                    taken |-> within_overflow_limit(current, x),
                    xn1 |-> xn1,
                    next |-> Shr(xn1, u128_trailing_zeros(xn1))]
    /\ UNCHANGED <<ustats, offUnit>>

\* one pass of the Phase 1.5 loop of stopping_time_u64_fast at cur256:
\* mul_small_checked, then either the hand-over to the pair scan or
\* add_one, trailing_zeros and shr
Phase15Step ==
    /\ unit.fn = "none"
    /\ \E cur256 \in Phase15Values, x \in PhaseX :
         \E prod \in {U256_mul_small_checked(cur256, x)} :
           IF ~prod.some
           THEN unit' = [fn |-> "phase15", v |-> cur256, x |-> x,
                         escalated |-> TRUE,
                         pn |-> from_biguint(U256_to_biguint(cur256))]
           ELSE \E xn1 \in {U256_add_one(prod.v)} :
                unit' = [fn |-> "phase15", v |-> cur256, x |-> x,
                         escalated |-> FALSE, xn1 |-> xn1,
                         next |-> U256_shr(xn1, U256_trailing_zeros(xn1))]
    /\ UNCHANGED <<ustats, offUnit>>

\* x * v + 1 of the last single iteration, on unbounded integers
UnitXn1 == BigAdd(BigMul(unit.v, unit.x), BigOne)

\* the last single iteration computed x * v + 1 and the next value exactly
UnitStepExact(width) ==
    /\ BigBits(UnitXn1) <= width
    /\ unit.xn1 = UnitXn1
    /\ unit.next = RefStep(unit.v, unit.x).next

\* C28: the fixed-width phases never compute x * v + 1 modulo the machine
\* width: Phase 1 takes a step only when x * v + 1 fits in 128 bits, and a
\* pass of Phase 1.5 either has x * v + 1 < 2^256 and goes on with exactly
\* (x * v + 1) >> d, or hands v unchanged to the pair scan, also when
\* x * v = 2^256 - 1
C28_NeverModuloWidth ==
    /\ (unit.fn = "phase1" /\ unit.taken) => UnitStepExact(U128_BITS)
    /\ unit.fn = "phase15" =>
          IF unit.escalated THEN to_biguint(unit.pn) = unit.v
          ELSE UnitStepExact(U256_BITS)

\* the same with the values v of Phase 1.5 at which x * v = 2^256 - 1
\* left out
C28_ExactBelowTheCarry ==
    /\ (unit.fn = "phase1" /\ unit.taken) => UnitStepExact(U128_BITS)
    /\ (unit.fn = "phase1" /\ ~unit.taken) => BigBits(UnitXn1) > U128_BITS
    /\ (unit.fn = "phase15" /\ BigMul(unit.v, unit.x) # 0..(U256_BITS - 1)) =>
          IF unit.escalated
          THEN to_biguint(unit.pn) = unit.v /\ BigBits(UnitXn1) > U256_BITS
          ELSE UnitStepExact(U256_BITS)

\* Phase 1.5 at v = (2^256 - 1) / 3 with x = 3: the multiplication succeeds
\* and add_one carries out of the top limb
Witness_C28 ==
    /\ unit.fn = "phase15"
    /\ unit.x = {0, 1}
    /\ unit.v = ThirdOfOnes(U256_BITS)
    /\ ~unit.escalated
    /\ unit.xn1 = {}

\* Phase 1 turns away (2^128 - 1) / 3, and Phase 1.5 hands over a value
Witness_C28_Escalated ==
    \/ unit.fn = "phase1" /\ unit.v = ThirdOfOnes(U128_BITS) /\ ~unit.taken
    \/ unit.fn = "phase15" /\ unit.escalated

\* the pair indices set in packed masks
MaskPairs(masks) ==
    UNION {{WORD * (w - 1) + b : b \in masks[w]} : w \in DOMAIN masks}

\* steps accumulated into one GpkStats record
MaxStatSteps == 2

\* (n, x) at which the trajectories with statistics start: 27 with x = 3
\* and 5, 7 with x = 9, and 2^(2m) - 1 with x = 3 for m = 126, 127, 128 and
\* 130 pairs, whose carry stays alive through every pair
GpkInputs ==
    {<<NatBits(27), {0, 1}>>, <<NatBits(27), {0, 2}>>, <<NatBits(7), {0, 3}>>}
      \cup {<<0..(2 * m - 1), {0, 1}>> : m \in {126, 127, 128, 130}}

\* the GpkInfo-shaped view of a PackedStepResult on an input of k pairs, as
\* the pair-scan loops read it
packed_gpk(result, k) ==
    [g_masks |-> result.g_masks, p_masks |-> result.p_masks,
     active_pairs |-> k, g_count |-> result.g_count,
     p_count |-> result.p_count, k_count |-> result.k_count,
     max_carry_chain |-> result.max_carry_chain]

\* a trajectory with statistics starts at n with multiplier x, with two
\* fresh GpkStats records (a thread-local one and a global one)
StartStats ==
    /\ unit.fn = "none"
    /\ \E nx \in GpkInputs :
           unit' = [fn |-> "start", x |-> nx[2], cur |-> from_biguint(nx[1])]
    /\ UNCHANGED <<ustats, offUnit>>

\* one step on the current value by the sequential scan and by the packed
\* scan with and without GPK collection; its record is added to one of the
\* two GpkStats records, by gpk_stats.accumulate(&result.gpk) as in the
\* tracers or by the additions of the pair-scan loops, and the trajectory
\* goes on from the step's result
AccumulateStep ==
    /\ unit.fn \in {"start", "accumulate", "merge"}
    /\ \E slot \in {1, 2}, packed \in BOOLEAN :
           /\ ustats[slot].total_steps < MaxStatSteps
           /\ \E k \in {unit.cur.pair_count} :
              \E seq \in {collatz_step_for(unit.cur, unit.x)} :
              \E pk \in {packed_gpk(packed_step_for(unit.cur, unit.x, TRUE), k)} :
              \E off \in {packed_gpk(packed_step_for(unit.cur, unit.x, FALSE), k)} :
                /\ ustats' = [ustats EXCEPT ![slot] =
                       IF packed
                       THEN pair_scan_stats([collect_gpk |-> TRUE], unit.cur, pk, @)
                       ELSE accumulate(@, seq.gpk)]
                /\ unit' = [fn |-> "accumulate", x |-> unit.x, cur |-> seq.next,
                            slot |-> slot, k |-> k,
                            seq |-> seq.gpk, pk |-> pk, off |-> off,
                            added |-> IF packed THEN pk.max_carry_chain
                                      ELSE seq.gpk.max_carry_chain]
    /\ UNCHANGED offUnit

\* self.merge(&other) on the two records, either way round
MergeRecords ==
    /\ unit.fn \in {"accumulate", "merge"}
    /\ \E slot \in {1, 2} :
           /\ ustats[slot].total_steps + ustats[3 - slot].total_steps
                  <= MaxStatSteps
           /\ ustats[3 - slot].total_steps > 0
           /\ ustats' = [ustats EXCEPT ![slot] = merge(@, ustats[3 - slot])]
           /\ unit' = [fn |-> "merge", x |-> unit.x, cur |-> unit.cur,
                       slot |-> slot]
    /\ UNCHANGED offUnit

RECURSIVE SumBins(_, _, _)
\* the sum of the bins lo..hi of a histogram
SumBins(hist, lo, hi) ==
    IF lo > hi THEN 0
    ELSE IF lo = hi THEN hist[lo]
    ELSE LET mid == (lo + hi) \div 2
         IN  SumBins(hist, lo, mid) + SumBins(hist, mid + 1, hi)

\* a GPK record of a step on k pairs is a partition of the pairs
GpkPartition(gpk, k) ==
    /\ MaskPairs(gpk.g_masks) \cap MaskPairs(gpk.p_masks) = {}
    /\ MaskPairs(gpk.g_masks) \cup MaskPairs(gpk.p_masks) \subseteq 0..(k - 1)
    /\ gpk.g_count = Cardinality(MaskPairs(gpk.g_masks))
    /\ gpk.p_count = Cardinality(MaskPairs(gpk.p_masks))
    /\ gpk.k_count \in 0..k
    /\ gpk.g_count + gpk.p_count + gpk.k_count = k
    /\ gpk.active_pairs = k

\* the totals of a GpkStats record add up
StatsAddUp(stats) ==
    /\ stats.total_g + stats.total_p + stats.total_k = stats.total_pairs
    /\ SumBins(stats.carry_chain_hist, 0, 127) = stats.total_steps
    /\ DOMAIN stats.carry_chain_hist = 0..127

NextUnit ==
    \/ Postprocess
    \/ KoggeStonePrefix
    \/ ExtractWindow
    \/ PairGpk
    \/ PackedScanWord
    \/ FastStats
    \/ Phase1Step
    \/ Phase15Step
    \/ StartStats
    \/ AccumulateStep
    \/ MergeRecords

SpecUnit == Init /\ [][NextUnit]_vars

(***************************************************************************)
(* Claims about the carry chain of a step (Spec)                           *)
(***************************************************************************)
\* the bits of v below position m
LowBits(v, m) == {i \in v : i < m}

\* the carry out of pair i in the addition n + (n << s) + 1 = x * n + 1,
\* taken from unbounded arithmetic: bit 2i + 2 of the sum of the operands
\* cut below that bit, plus 1
RealCarry(n, s, i) ==
    IF i < 0 THEN 1
    ELSE Bit(BigAdd(BigAdd(LowBits(n, 2 * i + 2),
                           LowBits(BigShl(n, s), 2 * i + 2)), BigOne),
             2 * i + 2)

\* the pairs below k out of which the carry comes alive
AlivePairs(n, s, k) == {i \in 0..(k - 1) : RealCarry(n, s, i) = 1}

\* the length of the longest run of consecutive members of A below k
LongestRun(A, k) ==
    LET starts == {a \in A : (a - 1) \notin A}
        RunFrom(a) == MinIn((0..k) \ A, a, k) - a
    IN  IF A = {} THEN 0
        ELSE CHOOSE m \in {RunFrom(a) : a \in starts} :
                 \A a \in starts : RunFrom(a) <= m

\* a step with a valid multiplier x = 2^s + 1 has been taken on pn
StepTaken ==
    /\ last.op \in {"seq", "both"}
    /\ ValidMultiplier(last.x)
    /\ pn = from_biguint(val)

\* C26: max_carry_chain of a step is the length of the longest run of
\* consecutive pairs i < k out of which the carry of x*n+1 comes alive, the
\* carry into pair 0 being the +1: a pair recorded Generate puts out carry
\* 1, a pair recorded Kill carry 0, a pair recorded Propagate the carry it
\* got, so the sweep's carry flag is the adder's carry; G,P,G of step(27, 3)
\* and P,G,P of step(27, 5) both give 3
C26_MaxCarryChain ==
    StepTaken =>
        \E s \in {RefPattern_new(last.x).s} : \E k \in {pn.pair_count} :
        \E g \in {MaskPairs(last.seq.gpk.g_masks)} :
        \E p \in {MaskPairs(last.seq.gpk.p_masks)} :
            /\ \A i \in 0..(k - 1) :
                   RealCarry(val, s, i)
                       = ClassCarry(MaskClass(g, p, i), RealCarry(val, s, i - 1))
            /\ last.seq.gpk.max_carry_chain
                   = LongestRun(AlivePairs(val, s, k), k)
            /\ last.op = "both" =>
                   last.pk.max_carry_chain = last.seq.gpk.max_carry_chain
            /\ (val = NatBits(27) /\ last.x \in {{0, 1}, {0, 2}}) =>
                   /\ last.seq.gpk.max_carry_chain = 3
                   /\ g = (IF last.x = {0, 1} THEN {0, 2} ELSE {1})
                   /\ p = (IF last.x = {0, 1} THEN {1} ELSE {0, 2})

\* a step whose carry dies at a Kill, is generated again and dies again:
\* the longest run is not the first one
Witness_C26 ==
    /\ StepTaken
    /\ last.op = "both"
    /\ \E i, j \in 1..(pn.pair_count - 1) :
           /\ i < j
           /\ RealCarry(val, RefPattern_new(last.x).s, i - 1) = 0
           /\ RealCarry(val, RefPattern_new(last.x).s, i) = 1
           /\ RealCarry(val, RefPattern_new(last.x).s, j) = 0
    /\ last.seq.gpk.max_carry_chain > 1
    /\ RealCarry(val, RefPattern_new(last.x).s, 0) = 0

====
